---- MODULE Spec2Model ----
(***************************************************************************)
(* Model of the calibration engine of futu_trends:                         *)
(*   - the parameter store (params_db.py, class ParamsDB) with its two     *)
(*     backends, SQLite and MongoDB, written by concurrent writers;        *)
(*   - the indicator strategies KD, MACD and RSI (signal_analysis/         *)
(*     indicators.py) in 'train' and 'check' mode;                         *)
(*   - the optimizer front end technical_analysis (signal_analysis/        *)
(*     analysis.py).                                                       *)
(* Arithmetic on prices is exact (rationals by cross-multiplication); a    *)
(* NaN is modelled by an explicit validity flag, and every comparison with *)
(* a NaN is false, as in numpy/pandas.                                     *)
(***************************************************************************)
EXTENDS Integers, Sequences, FiniteSets, TLC

VARIABLES
    sqliteDb,    \* [Instances -> table stock_params]: stock_code -> row
    mongoDb,     \* [Instances -> collection strategy_params]: sequence of documents
    history,     \* rows of a history log
    fs,          \* the backup files: path -> <<>> (no file) or <<JSON content, the
                 \* records of the store when it was written (history variable)>>
    pc,          \* [Writers -> position inside _update_stock_params]
    conn,        \* [Writers -> the db_uri of the ParamsDB object in use]
    queue,       \* [Writers -> StockParams still to be passed to _update_stock_params]
    matched,     \* [Writers -> document matched by update_one's query phase]
    job,         \* [Writers -> the public call in progress / last finished]
    calls,       \* [Writers -> number of import_params calls made]
    observed,    \* the operations whose calls job records (fixed per run)
    newest,      \* per (backend, symbol): newest last_updated ever submitted to "main"
    bars,        \* bar history handed to an indicator (sequence of OHLC records)
    bars2,       \* a second history that agrees with bars up to index cut
    cut,         \* the index up to which bars and bars2 agree
    frame,       \* last result of Indicator.calculate on bars
    frame2,      \* last result of Indicator.calculate on bars2
    call,        \* the (strategy, params, mode) of the last calculate
    ta,          \* state of a technical_analysis run
    wr,          \* last call of calculate_win_rate: its arguments and what it returned
    regime,      \* the caller's bar frame and the regime calls made on it
    batch,       \* state of a run_analysis call over a code list
    scheduler,   \* a SchedulerManager: its tasks and the jobs of its APScheduler
    engine       \* a ConditionOrderEngine: active_orders and what it has executed

evalVars == <<wr, regime, batch>>
indVars == <<bars, bars2, cut, frame, frame2, call, ta, wr, regime, batch>>
liveVars == <<scheduler, engine>>
vars == <<sqliteDb, mongoDb, history, fs, pc, conn, queue, matched, job, calls, observed, newest,
          bars, bars2, cut, frame, frame2, call, ta, wr, regime, batch, scheduler, engine>>

(***************************************************************************)
(* Bounds of the model.                                                    *)
(***************************************************************************)
MaxTime == 2          \* datetimes are 1..MaxTime
MaxBatch == 2         \* symbols per parameter file, one writer
ConcurrentBatch == 1  \* symbols per parameter file, concurrent writers
MaxCalls == 2         \* import_params calls per writer, concurrent writers
MaxLockstep == 3      \* calls made on both backends side by side
NumPayloads == 2      \* distinct (best_params, meta_info, performance) contents
MaxBars == 5          \* bars in a bar history
MaxFuture == 1        \* bars after the index up to which two histories agree
n_optimizations == 2  \* search trials of one technical_analysis call (20 in the source)
MaxEvals == 1         \* proposals per search trial (the evals argument)
n_processes == 2      \* worker processes of the pool
MaxRows == 3          \* rows of a signal frame handed to the evaluator
MaxCodes == 3         \* symbols of a run_analysis code list
ZeroVolBars == 300    \* bars of the constant-price series
MaxRegimeCalls == 2   \* successive calls of the regime functions on one frame
MaxProposals == 102   \* max_evals of a search whose objective values are inputs
MaxTicks == 3         \* ticks handed to the condition order engine

Symbols == {"HK.00700", "US.AAPL"}
Writers == {"w1", "w2"}
Backends == {"sqlite", "mongo"}
Instances == {"main", "copy"}
Times == 1..MaxTime
Payloads == 1..NumPayloads

(***************************************************************************)
(* Values.  A Python dict loaded from JSON is a sequence of <<key, value>> *)
(* pairs (insertion ordered).                                              *)
(***************************************************************************)
BestParamsOf(c) == << <<"k_period", 8 + c>>, <<"d_period", 3>> >>
MetaInfoOf(c) == << <<"look_ahead", 7>>, <<"atr_period", 19 + c>> >>
PerformanceOf(c) == << <<"support_signals_count", c>> >>

JsonNumbers == 0..99

\* json.dumps: a dict becomes text, here the sequence of its tokens
RECURSIVE json_dumps(_)
json_dumps(d) ==
    IF d = <<>> THEN <<>>
    ELSE <<d[1][1], ToString(d[1][2])>> \o json_dumps(Tail(d))

ParseNumber(tok) == CHOOSE n \in JsonNumbers : ToString(n) = tok

\* json.loads: text back to a dict
RECURSIVE json_loads(_)
json_loads(text) ==
    IF text = <<>> THEN <<>>
    ELSE << <<text[1], ParseNumber(text[2])>> >> \o json_loads(SubSeq(text, 3, Len(text)))

\* datetime.isoformat(): fixed-width text, here two decimal digits
isoformat(t) == <<t \div 10, t % 10>>

\* datetime.fromisoformat()
fromisoformat(s) == s[1] * 10 + s[2]

\* comparison of two TEXT values in SQLite (BINARY collation: memcmp, then length)
RECURSIVE TextLess(_, _)
TextLess(a, b) ==
    IF a = <<>> THEN b # <<>>
    ELSE IF b = <<>> THEN FALSE
    ELSE IF a[1] # b[1] THEN a[1] < b[1]
    ELSE TextLess(Tail(a), Tail(b))

(***************************************************************************)
(* Parameter files.  A path is [dir, stem, date], for dir/stem_YYYYMMDD.    *)
(***************************************************************************)
ParamPaths == {[dir |-> "output", stem |-> "detect", date |-> d] : d \in Times}

\* ParamsDB._get_file_timestamp: the date parsed from the file name
FileTimestamp(path) == path.date

\* the symbol orders a parameter file of at most n symbols can list (the distinct
\* keys of a JSON object)
SymbolOrders(n) ==
    {o \in UNION {[1..k -> Symbols] : k \in 1..n} :
        \A i, j \in 1..Len(o) : i # j => o[i] # o[j]}

StockParams(code, c, ts, src) ==
    [stock_code |-> code,
     best_params |-> BestParamsOf(c),
     meta_info |-> MetaInfoOf(c),
     performance |-> PerformanceOf(c),
     last_updated |-> ts,
     source_file |-> src]

\* ParamsDB._parse_params_file: one StockParams per key, all with the file's timestamp
ParseParamsFile(path, order, data) ==
    [i \in 1..Len(order) |-> StockParams(order[i], data[i], FileTimestamp(path), path)]

(***************************************************************************)
(* SQLite backend: table stock_params, stock_code TEXT PRIMARY KEY.        *)
(***************************************************************************)
SqliteRow(p) ==
    [stock_code |-> p.stock_code,
     best_params |-> json_dumps(p.best_params),
     meta_info |-> json_dumps(p.meta_info),
     performance |-> json_dumps(p.performance),
     last_updated |-> isoformat(p.last_updated),
     source_file |-> p.source_file]

\* SELECT last_updated FROM stock_params WHERE stock_code = ?  (fetchone)
SqliteSelectLastUpdated(table, code) ==
    IF code \in DOMAIN table THEN <<table[code].last_updated>> ELSE <<>>

\* INSERT .. ON CONFLICT(stock_code) DO NOTHING
SqliteUpsert_IgnoreConflict(table, p) ==
    IF p.stock_code \in DOMAIN table THEN table
    ELSE table @@ (p.stock_code :> SqliteRow(p))

\* INSERT .. ON CONFLICT(stock_code) DO UPDATE SET .. WHERE excluded.last_updated > stock_params.last_updated
SqliteUpsert(table, p) ==
    IF p.stock_code \notin DOMAIN table
    THEN table @@ (p.stock_code :> SqliteRow(p))
    ELSE IF TextLess(table[p.stock_code].last_updated, SqliteRow(p).last_updated)
         THEN [table EXCEPT ![p.stock_code] = SqliteRow(p)]
         ELSE table

(***************************************************************************)
(* MongoDB backend: collection strategy_params; the index on stock_code is *)
(* not unique.                                                             *)
(***************************************************************************)
ParamsData(p) == p

\* find_one({'stock_code': code}): the first matching document in natural order
MongoMatch(coll, code) ==
    IF \E i \in 1..Len(coll) : coll[i].stock_code = code
    THEN CHOOSE i \in 1..Len(coll) :
            /\ coll[i].stock_code = code
            /\ \A j \in 1..(i - 1) : coll[j].stock_code # code
    ELSE 0

MongoFindOne(coll, code) ==
    IF MongoMatch(coll, code) = 0 THEN <<>> ELSE <<coll[MongoMatch(coll, code)]>>

\* update_one(.., {'$set': params_data}, upsert=True), write phase on the matched document
MongoSet(coll, i, data) == [coll EXCEPT ![i] = [_id |-> coll[i]._id] @@ data]

\* update_one(.., upsert=True), write phase when the query matched nothing
MongoInsert(coll, data) == Append(coll, [_id |-> Len(coll) + 1] @@ data)

(***************************************************************************)
(* get_stock_params: {best_params, meta_info, performance} or None; the    *)
(* result is <<>> for None and <<dict>> otherwise.                         *)
(***************************************************************************)
GetSqlite(table, code) ==
    IF code \in DOMAIN table
    THEN <<[best_params |-> json_loads(table[code].best_params),
            meta_info |-> json_loads(table[code].meta_info),
            performance |-> json_loads(table[code].performance)]>>
    ELSE <<>>

GetMongo(coll, code) ==
    IF MongoFindOne(coll, code) # <<>>
    THEN <<[best_params |-> MongoFindOne(coll, code)[1].best_params,
            meta_info |-> MongoFindOne(coll, code)[1].meta_info,
            performance |-> MongoFindOne(coll, code)[1].performance]>>
    ELSE <<>>

get_stock_params(db, code) ==
    IF db.backend = "mongo" THEN GetMongo(mongoDb[db.inst], code)
    ELSE GetSqlite(sqliteDb[db.inst], code)

\* last_updated of the record get_stock_params would read, 0 when there is none
StoredTime(db, code) ==
    IF db.backend = "mongo"
    THEN IF MongoFindOne(mongoDb[db.inst], code) = <<>> THEN 0
         ELSE MongoFindOne(mongoDb[db.inst], code)[1].last_updated
    ELSE IF code \in DOMAIN sqliteDb[db.inst]
         THEN fromisoformat(sqliteDb[db.inst][code].last_updated) ELSE 0

(***************************************************************************)
(* Backup files.                                                           *)
(***************************************************************************)
BackupPaths == {[dir |-> "backup", name |-> "params.json"],
                [dir |-> "", name |-> "params.json"]}

RECURSIVE SeqOfSet(_)
SeqOfSet(S) ==
    IF S = {} THEN <<>>
    ELSE LET x == CHOOSE y \in S : TRUE IN <<x>> \o SeqOfSet(S \ {x})

\* the dict that backup_to_file dumps for an SQLite store (SELECT * FROM stock_params)
BackupDataSqlite(table) ==
    [code \in DOMAIN table |->
        [stock_code |-> code,
         best_params |-> json_dumps(json_loads(table[code].best_params)),
         meta_info |-> json_dumps(json_loads(table[code].meta_info)),
         performance |-> json_dumps(json_loads(table[code].performance)),
         last_updated |-> table[code].last_updated,
         source_file |-> table[code].source_file]]

\* the last document of the collection with this stock_code (data[doc['stock_code']] = doc)
MongoLast(coll, code) ==
    coll[CHOOSE i \in 1..Len(coll) :
            /\ coll[i].stock_code = code
            /\ \A j \in (i + 1)..Len(coll) : coll[j].stock_code # code]

\* the dict that backup_to_file dumps for a MongoDB store (collection.find())
BackupDataMongo(coll) ==
    [code \in {coll[i].stock_code : i \in 1..Len(coll)} |->
        [_id |-> ToString(MongoLast(coll, code)._id),
         stock_code |-> code,
         best_params |-> json_dumps(MongoLast(coll, code).best_params),
         meta_info |-> json_dumps(MongoLast(coll, code).meta_info),
         performance |-> json_dumps(MongoLast(coll, code).performance),
         last_updated |-> isoformat(MongoLast(coll, code).last_updated),
         source_file |-> MongoLast(coll, code).source_file]]

BackupData(db) ==
    IF db.backend = "mongo" THEN BackupDataMongo(mongoDb[db.inst])
    ELSE BackupDataSqlite(sqliteDb[db.inst])

\* restore_from_file: the StockParams built from the file's content
RestoreParams(data) ==
    LET order == SeqOfSet(DOMAIN data)
    IN [i \in 1..Len(order) |->
           [stock_code |-> order[i],
            best_params |-> json_loads(data[order[i]].best_params),
            meta_info |-> json_loads(data[order[i]].meta_info),
            performance |-> json_loads(data[order[i]].performance),
            last_updated |-> fromisoformat(data[order[i]].last_updated),
            source_file |-> data[order[i]].source_file]]

(***************************************************************************)
(* The store's operations.  _update_stock_params is not atomic: it reads   *)
(* the current timestamp, then writes; MongoDB's upsert itself first       *)
(* queries and then writes.                                                *)
(***************************************************************************)
\* job[w] describes the last call by writer w of an operation in observed, running or
\* returned: op, ret (return value) and what the call was given:
\*   args         the arguments of the call
\*   imported[s]  what the call's file holds for symbol s (<<>>: nothing)
\*   pre[s]       for a symbol s of the file, the store's record of s when the call
\*                began: "absent", or its last_updated "older", "same" or "newer"
\*                than the file's
\*   result       the value a get_stock_params call returned
\*   snap         (restore) the records of the store the file was written from
\*   emptyBefore  (restore) whether the target store was empty when the call began
NoArgs == [path |-> [dir |-> "", stem |-> "", date |-> 0], order |-> <<>>, data |-> <<>>,
           code |-> ""]

NoJob == [op |-> "none", ret |-> "none", args |-> NoArgs,
          imported |-> [s \in Symbols |-> <<>>], pre |-> [s \in Symbols |-> "-"],
          result |-> <<>>, path |-> "", snap |-> {}, emptyBefore |-> FALSE]

\* how the stored last_updated (0: no record) relates to an incoming one
Relation(stored, incoming) ==
    IF stored = 0 THEN "absent"
    ELSE IF stored < incoming THEN "older"
    ELSE IF stored = incoming THEN "same"
    ELSE "newer"

\* what get_stock_params returns for a record holding the values of p
Returned(p) ==
    [best_params |-> p.best_params, meta_info |-> p.meta_info, performance |-> p.performance]

ImportedOf(params) ==
    [s \in Symbols |->
        IF \E i \in 1..Len(params) : params[i].stock_code = s
        THEN <<Returned(params[CHOOSE i \in 1..Len(params) : params[i].stock_code = s])>>
        ELSE <<>>]

Max(a, b) == IF a >= b THEN a ELSE b

\* newest timestamp submitted per symbol, after the calls of params
Submitted(old, params) ==
    [s \in Symbols |->
        LET ts == {params[i].last_updated : i \in {j \in 1..Len(params) : params[j].stock_code = s}}
        IN IF ts = {} THEN old[s] ELSE Max(old[s], CHOOSE t \in ts : \A u \in ts : u <= t)]

\* the records of a store as StockParams (both backends in one form)
Records(db) ==
    IF db.backend = "mongo"
    THEN {[stock_code |-> d.stock_code, best_params |-> d.best_params,
           meta_info |-> d.meta_info, performance |-> d.performance,
           last_updated |-> d.last_updated, source_file |-> d.source_file] :
              d \in {mongoDb[db.inst][i] : i \in 1..Len(mongoDb[db.inst])}}
    ELSE {[stock_code |-> r.stock_code, best_params |-> json_loads(r.best_params),
           meta_info |-> json_loads(r.meta_info), performance |-> json_loads(r.performance),
           last_updated |-> fromisoformat(r.last_updated), source_file |-> r.source_file] :
              r \in {sqliteDb[db.inst][c] : c \in DOMAIN sqliteDb[db.inst]}}

\* start of a loop "for params in stock_params.values(): self._update_stock_params(params)"
StartUpdates(w, db, op, args, params, doneRet, snap) ==
    /\ conn' = [conn EXCEPT ![w] = db]
    /\ queue' = [queue EXCEPT ![w] = params]
    /\ pc' = [pc EXCEPT ![w] = IF params = <<>> THEN "idle" ELSE "select"]
    /\ job' = [job EXCEPT ![w] =
                 IF op \in observed
                 THEN [NoJob EXCEPT !.op = op,
                                    !.ret = IF params = <<>> THEN doneRet ELSE "running",
                                    !.args = args,
                                    !.imported = ImportedOf(params),
                                    !.pre = [s \in Symbols |->
                                               IF \E i \in 1..Len(params) : params[i].stock_code = s
                                               THEN Relation(StoredTime(db, s),
                                                             params[CHOOSE i \in 1..Len(params) :
                                                                params[i].stock_code = s].last_updated)
                                               ELSE "-"],
                                    !.snap = snap,
                                    !.emptyBefore = (Records(db) = {})]
                 ELSE NoJob]
    /\ newest' = IF db.inst = "main"
                 THEN [newest EXCEPT ![db.backend] = Submitted(@, params)]
                 ELSE newest

\* return value of the public call once its loop is over
DoneRet(op) == IF op = "restore" THEN "True" ELSE "None"

\* end of one _update_stock_params call: on to the next record, or return
Finish(w) ==
    /\ queue' = [queue EXCEPT ![w] = Tail(@)]
    /\ pc' = [pc EXCEPT ![w] = IF Len(queue[w]) = 1 THEN "idle" ELSE "select"]
    /\ job' = [job EXCEPT ![w].ret = IF job[w].op \in observed /\ Len(queue[w]) = 1
                                     THEN DoneRet(job[w].op) ELSE @]

\* import_params(params_file)
ImportParams(w, db, path, order, data) ==
    /\ pc[w] = "idle"
    /\ StartUpdates(w, db, "import", [NoArgs EXCEPT !.path = path, !.order = order, !.data = data],
                    ParseParamsFile(path, order, data), "None", {})
    /\ UNCHANGED <<sqliteDb, mongoDb, history, fs, matched, observed>>
    /\ UNCHANGED <<indVars, liveVars>>

\* _update_stock_params, SQLite branch: SELECT last_updated and the skip test
SqliteSelect(w) ==
    /\ pc[w] = "select"
    /\ conn[w].backend = "sqlite"
    /\ LET p == Head(queue[w])
           cur == SqliteSelectLastUpdated(sqliteDb[conn[w].inst], p.stock_code)
       IN IF cur # <<>> /\ fromisoformat(cur[1]) > p.last_updated
          THEN Finish(w)
          ELSE /\ pc' = [pc EXCEPT ![w] = "upsert"]
               /\ UNCHANGED <<queue, job>>
    /\ UNCHANGED <<sqliteDb, mongoDb, history, fs, conn, matched, observed, newest, calls>>
    /\ UNCHANGED <<indVars, liveVars>>

\* _update_stock_params, SQLite branch: the INSERT .. ON CONFLICT statement and commit
SqliteWrite(w) ==
    /\ pc[w] = "upsert"
    /\ conn[w].backend = "sqlite"
    /\ sqliteDb' = [sqliteDb EXCEPT ![conn[w].inst] = SqliteUpsert(@, Head(queue[w]))]
    /\ Finish(w)
    /\ UNCHANGED <<mongoDb, history, fs, conn, matched, observed, newest, calls>>
    /\ UNCHANGED <<indVars, liveVars>>

\* _update_stock_params, MongoDB branch: find_one and the skip test
MongoFind(w) ==
    /\ pc[w] = "select"
    /\ conn[w].backend = "mongo"
    /\ LET p == Head(queue[w])
           cur == MongoFindOne(mongoDb[conn[w].inst], p.stock_code)
       IN IF cur # <<>> /\ cur[1].last_updated > p.last_updated
          THEN Finish(w)
          ELSE /\ pc' = [pc EXCEPT ![w] = "query"]
               /\ UNCHANGED <<queue, job>>
    /\ UNCHANGED <<sqliteDb, mongoDb, history, fs, conn, matched, observed, newest, calls>>
    /\ UNCHANGED <<indVars, liveVars>>

\* update_one(upsert=True): the server looks for a document matching the filter
MongoQuery(w) ==
    /\ pc[w] = "query"
    /\ matched' = [matched EXCEPT ![w] = MongoMatch(mongoDb[conn[w].inst], Head(queue[w]).stock_code)]
    /\ pc' = [pc EXCEPT ![w] = "apply"]
    /\ UNCHANGED <<sqliteDb, mongoDb, history, fs, conn, queue, job, observed, newest, calls>>
    /\ UNCHANGED <<indVars, liveVars>>

\* update_one(upsert=True): $set on the matched document, or insert of a new one
MongoApply(w) ==
    /\ pc[w] = "apply"
    /\ mongoDb' = [mongoDb EXCEPT ![conn[w].inst] =
                      IF matched[w] = 0
                      THEN MongoInsert(@, ParamsData(Head(queue[w])))
                      ELSE MongoSet(@, matched[w], ParamsData(Head(queue[w])))]
    /\ matched' = [matched EXCEPT ![w] = 0]
    /\ Finish(w)
    /\ UNCHANGED <<sqliteDb, history, fs, conn, observed, newest, calls>>
    /\ UNCHANGED <<indVars, liveVars>>

\* get_stock_params(stock_code)
GetStockParams(w, db, code) ==
    /\ pc[w] = "idle"
    /\ conn' = [conn EXCEPT ![w] = db]
    /\ job' = [job EXCEPT ![w] = IF "get" \in observed
                                  THEN [NoJob EXCEPT !.op = "get", !.ret = "returned",
                                                     !.args = [NoArgs EXCEPT !.code = code],
                                                     !.result = get_stock_params(db, code)]
                                  ELSE NoJob]
    /\ UNCHANGED <<sqliteDb, mongoDb, history, fs, pc, queue, matched, observed, newest>>
    /\ UNCHANGED <<indVars, liveVars>>

\* backup_to_file(file_path): os.makedirs(os.path.dirname(file_path)) raises for a
\* path without directory part, and the except clause returns False
BackupToFile(w, db, path) ==
    /\ pc[w] = "idle"
    /\ conn' = [conn EXCEPT ![w] = db]
    /\ fs' = IF path.dir = "" THEN fs ELSE [fs EXCEPT ![path] = <<BackupData(db), Records(db)>>]
    /\ job' = [job EXCEPT ![w] = IF "backup" \in observed
                                  THEN [NoJob EXCEPT !.op = "backup",
                                                     !.ret = IF path.dir = "" THEN "False"
                                                             ELSE "True",
                                                     !.path = path.dir]
                                  ELSE NoJob]
    /\ UNCHANGED <<sqliteDb, mongoDb, history, pc, queue, matched, observed, newest>>
    /\ UNCHANGED <<indVars, liveVars>>

\* restore_from_file(file_path): open() raises when the file does not exist
RestoreFromFile(w, db, path) ==
    /\ pc[w] = "idle"
    /\ IF fs[path] = <<>>
       THEN /\ conn' = [conn EXCEPT ![w] = db]
            /\ job' = [job EXCEPT ![w] = IF "restore" \in observed
                                          THEN [NoJob EXCEPT !.op = "restore", !.ret = "False",
                                                             !.path = path.dir]
                                          ELSE NoJob]
            /\ UNCHANGED <<pc, queue, newest>>
       ELSE StartUpdates(w, db, "restore", NoArgs, RestoreParams(fs[path][1]), "True", fs[path][2])
    /\ UNCHANGED <<sqliteDb, mongoDb, history, fs, matched, observed>>
    /\ UNCHANGED <<indVars, liveVars>>

(***************************************************************************)
(* Specifications of the parameter store.  The backend is selected by the  *)
(* db_uri the process is configured with: it is fixed for a writer.        *)
(***************************************************************************)
Main(w) == [backend |-> conn[w].backend, inst |-> "main"]
Copy(w) == [backend |-> conn[w].backend, inst |-> "copy"]

\* SchedulerManager.__init__ before its first add_task: no task, no job; the last two
\* fields are history: the tasks whose remove_task returned True with no add_task
\* since, and those of them whose task function was run afterwards
NewScheduler == [tasks |-> {}, jobs |-> {}, removed |-> {}, ran |-> {}, ret |-> "none"]
\* ConditionOrderEngine.__init__: no active order; executions counts, per order id, the
\* calls of _execute_actions so far and seen holds the ticks processed (history)
OrderIds == {"o1", "o2", "o3", "o4"}
NewEngine ==
    [loaded |-> FALSE, active_orders |-> {}, executions |-> [id \in OrderIds |-> 0],
     seen |-> <<>>]

InitStore ==
    /\ scheduler = NewScheduler
    /\ engine = NewEngine
    /\ sqliteDb = [i \in Instances |-> <<>>]
    /\ mongoDb = [i \in Instances |-> <<>>]
    /\ history = <<>>
    /\ fs = [p \in BackupPaths |-> <<>>]
    /\ pc = [w \in Writers |-> "idle"]
    /\ queue = [w \in Writers |-> <<>>]
    /\ matched = [w \in Writers |-> 0]
    /\ job = [w \in Writers |-> NoJob]
    /\ newest = [b \in Backends |-> [s \in Symbols |-> 0]]
    /\ calls = [w \in Writers |-> 0]

\* no technical_analysis call has been made
NoTa == [pc |-> "idle"]

NoIndicator ==
    /\ bars = <<>>
    /\ bars2 = <<>>
    /\ cut = 0
    /\ frame = <<>>
    /\ frame2 = <<>>
    /\ call = <<>>
    /\ ta = NoTa
    /\ wr = <<>>
    /\ regime = <<>>
    /\ batch = <<>>

\* every writer is configured with the same db_uri
SameBackend == \E b \in Backends : conn = [w \in Writers |-> [backend |-> b, inst |-> "main"]]

Init == InitStore /\ SameBackend /\ observed = {} /\ NoIndicator

InitSeq == InitStore /\ SameBackend /\ observed = {"import", "get"} /\ NoIndicator

InitBackup == InitStore /\ SameBackend /\ observed = {"backup", "restore"} /\ NoIndicator

\* import_params of some parameter file of at most n symbols
Import(w, n) ==
    \E path \in ParamPaths, order \in SymbolOrders(n) :
        \E data \in [1..Len(order) -> Payloads] : ImportParams(w, Main(w), path, order, data)

\* a writer of the concurrent runs imports a file (at most MaxCalls times)
ConcurrentImport(w) ==
    /\ calls[w] < MaxCalls
    /\ calls' = [calls EXCEPT ![w] = @ + 1]
    /\ Import(w, ConcurrentBatch)

SeqImport(w) == Import(w, MaxBatch) /\ UNCHANGED calls

Get(w) == (\E s \in Symbols : GetStockParams(w, Main(w), s)) /\ UNCHANGED calls

Backup(w) == (\E path \in BackupPaths : BackupToFile(w, Main(w), path)) /\ UNCHANGED calls

\* restore of a file into the copy while the copy is empty
Restore(w) ==
    /\ Records(Copy(w)) = {}
    /\ \E path \in BackupPaths : RestoreFromFile(w, Copy(w), path)
    /\ UNCHANGED calls

\* concurrent writers on the main store
Next ==
    \/ \E w \in Writers : ConcurrentImport(w)
    \/ \E w \in Writers : SqliteSelect(w)
    \/ \E w \in Writers : SqliteWrite(w)
    \/ \E w \in Writers : MongoFind(w)
    \/ \E w \in Writers : MongoQuery(w)
    \/ \E w \in Writers : MongoApply(w)
    \/ \E w \in Writers : Get(w)

Spec == Init /\ [][Next]_vars

\* a single writer: imports and reads, one call after the other
NextSeq ==
    \/ SeqImport("w1")
    \/ SqliteSelect("w1")
    \/ SqliteWrite("w1")
    \/ MongoFind("w1")
    \/ MongoQuery("w1")
    \/ MongoApply("w1")
    \/ Get("w1")

SpecSeq == InitSeq /\ [][NextSeq]_vars

\* a single writer: imports into the main store, backup of the main store to a file,
\* restore of a file into the empty copy
NextBackup ==
    \/ SeqImport("w1")
    \/ SqliteSelect("w1")
    \/ SqliteWrite("w1")
    \/ MongoFind("w1")
    \/ MongoQuery("w1")
    \/ MongoApply("w1")
    \/ Backup("w1")
    \/ Restore("w1")

SpecBackup == InitBackup /\ [][NextBackup]_vars

(***************************************************************************)
(* The two backends side by side: writer w1 is configured with the SQLite  *)
(* store and w2 with the MongoDB store; every call w1 makes, w2 makes next *)
(* with the same arguments.                                                *)
(***************************************************************************)
InitBoth ==
    /\ InitStore
    /\ conn = [w \in Writers |-> [backend |-> IF w = "w1" THEN "sqlite" ELSE "mongo",
                                  inst |-> "main"]]
    /\ observed = {"import", "get"}
    /\ NoIndicator

\* w1 makes a call on the SQLite store
LeadCall ==
    /\ calls["w1"] = calls["w2"]
    /\ calls["w1"] < MaxLockstep
    /\ pc["w2"] = "idle"
    /\ calls' = [calls EXCEPT !["w1"] = @ + 1]
    /\ \/ Import("w1", MaxBatch)
       \/ \E s \in Symbols : GetStockParams("w1", Main("w1"), s)

\* w2 makes the same call on the MongoDB store
FollowCall ==
    /\ calls["w2"] < calls["w1"]
    /\ pc["w1"] = "idle"
    /\ calls' = [calls EXCEPT !["w2"] = @ + 1]
    /\ IF job["w1"].op = "import"
       THEN ImportParams("w2", Main("w2"), job["w1"].args.path, job["w1"].args.order,
                         job["w1"].args.data)
       ELSE GetStockParams("w2", Main("w2"), job["w1"].args.code)

NextBoth ==
    \/ LeadCall
    \/ FollowCall
    \/ \E w \in Writers : SqliteSelect(w)
    \/ \E w \in Writers : SqliteWrite(w)
    \/ \E w \in Writers : MongoFind(w)
    \/ \E w \in Writers : MongoQuery(w)
    \/ \E w \in Writers : MongoApply(w)

SpecBoth == InitBoth /\ [][NextBoth]_vars

(***************************************************************************)
(* Properties of the parameter store.                                      *)
(***************************************************************************)
AllIdle == \A w \in Writers : pc[w] = "idle"

\* the stored record(s) of a symbol
StoredRecords(db, s) == {r \in Records(db) : r.stock_code = s}

\* a call of the observed operation op by w has returned
Returned_(w, op) == job[w].op = op /\ job[w].ret \notin {"none", "running"}

\* C1: for any sequence of updates to one symbol, on either backend, the stored
\* record is replaced only when the incoming last_updated is strictly newer than the
\* stored one: in every step that changes the stored record of a symbol that had a
\* record, the stored last_updated strictly increases.
C1_ReplacedOnlyByStrictlyNewer ==
    [][\A s \in Symbols :
          (/\ StoredRecords(Main("w1"), s) # {}
           /\ StoredRecords(Main("w1"), s)' # StoredRecords(Main("w1"), s))
          => StoredTime(Main("w1"), s)' > StoredTime(Main("w1"), s)]_vars

\* C2: concurrent writers to the same symbol need no locking: whenever no update is
\* in flight, the stored record of every symbol carries the newest last_updated that
\* was ever submitted for it.
C2_NewestTimestampWins ==
    AllIdle =>
        \A s \in Symbols :
            newest[conn["w1"].backend][s] # 0
            => StoredTime(Main("w1"), s) = newest[conn["w1"].backend][s]

C4_BackendsAgree ==
    (/\ calls["w1"] = calls["w2"]
     /\ AllIdle
     /\ job["w1"].op = "get"
     /\ job["w2"].op = "get")
    => job["w1"].result = job["w2"].result

\* the last history row of a symbol, <<>> when it has none
LastLogged(s) ==
    IF \E i \in 1..Len(history) : history[i].stock_code = s
    THEN <<history[CHOOSE i \in 1..Len(history) :
              /\ history[i].stock_code = s
              /\ \A j \in (i + 1)..Len(history) : history[j].stock_code # s]>>
    ELSE <<>>

\* writer w completes an _update_stock_params call in this step
UpdateReturns(w) == pc[w] \in {"select", "upsert", "apply"} /\ queue'[w] # queue[w]

\* C5: the history log is append-only (existing rows are never modified or removed),
\* and an update appends a row if and only if its content differs from the most
\* recently logged snapshot of its symbol; a rejected update appends none.
C5_HistoryLog ==
    [][/\ Len(history') >= Len(history)
       /\ \A i \in 1..Len(history) : history'[i] = history[i]
       /\ \A w \in Writers :
             UpdateReturns(w) =>
                LET p == Head(queue[w])
                    differs == \/ LastLogged(p.stock_code) = <<>>
                               \/ Returned(LastLogged(p.stock_code)[1]) # Returned(p)
                    accepted == pc[w] # "select"
                IN (Len(history') = Len(history) + 1) <=> (accepted /\ differs)]_vars

\* C6: backup_to_file of a store S and restore_from_file of that file into an empty
\* store both return True, and the restored store holds exactly the records of S.
C6_BackupRestoreRoundTrip ==
    /\ Returned_("w1", "backup") => job["w1"].ret = "True"
    /\ (Returned_("w1", "restore") /\ job["w1"].emptyBefore) =>
          /\ job["w1"].ret = "True"
          /\ Records(Copy("w1")) = job["w1"].snap

\* the same round trip for a backup path that has a directory part
BackupRestoreRoundTripInDirectory ==
    /\ (Returned_("w1", "backup") /\ job["w1"].path # "") => job["w1"].ret = "True"
    /\ (Returned_("w1", "restore") /\ job["w1"].emptyBefore /\ job["w1"].path # "") =>
          /\ job["w1"].ret = "True"
          /\ Records(Copy("w1")) = job["w1"].snap

\* C7: each backend holds at most one record for any given stock_code.
C7_OneRecordPerSymbol ==
    \A i \in Instances, s \in Symbols :
        Cardinality({k \in 1..Len(mongoDb[i]) : mongoDb[i][k].stock_code = s}) <= 1

(***************************************************************************)
(* Indicators (signal_analysis/indicators.py).                             *)
(*                                                                         *)
(* Numbers.  A float is the exact rational <<n, d>> with d > 0 in lowest   *)
(* terms; NaN is <<0, 0>>.  Every comparison with a NaN is false.          *)
(***************************************************************************)
storeVars == <<sqliteDb, mongoDb, history, fs, pc, conn, queue, matched, job, calls,
               observed, newest>>

NaN == <<0, 0>>
IsNaN(x) == x[2] = 0
Abs(n) == IF n < 0 THEN 0 - n ELSE n

RECURSIVE GCD(_, _)
GCD(a, b) == IF b = 0 THEN a ELSE GCD(b, a % b)

\* n / d for integers n, d with d > 0
Rat(n, d) == LET g == GCD(Abs(n), d) IN <<n \div g, d \div g>>
Num(n) == <<n, 1>>
RAdd(x, y) == IF IsNaN(x) \/ IsNaN(y) THEN NaN ELSE Rat(x[1] * y[2] + y[1] * x[2], x[2] * y[2])
RSub(x, y) == IF IsNaN(x) \/ IsNaN(y) THEN NaN ELSE Rat(x[1] * y[2] - y[1] * x[2], x[2] * y[2])
RMul(x, y) == IF IsNaN(x) \/ IsNaN(y) THEN NaN ELSE Rat(x[1] * y[1], x[2] * y[2])
\* x / y; 0 / 0 is NaN.  (x / 0 with x # 0 is +-inf in numpy; it does not arise for
\* bars with low <= close <= high, which all bars of the model are.)
RDiv(x, y) ==
    IF IsNaN(x) \/ IsNaN(y) \/ y[1] = 0 THEN NaN
    ELSE IF y[1] > 0 THEN Rat(x[1] * y[2], x[2] * y[1])
    ELSE Rat(0 - x[1] * y[2], x[2] * (0 - y[1]))
Lt(x, y) == ~IsNaN(x) /\ ~IsNaN(y) /\ x[1] * y[2] < y[1] * x[2]
Le(x, y) == ~IsNaN(x) /\ ~IsNaN(y) /\ x[1] * y[2] <= y[1] * x[2]
Gt(x, y) == Lt(y, x)
Ge(x, y) == Le(y, x)

(***************************************************************************)
(* pandas Series: sequences of numbers, indexed 1..Len.                    *)
(***************************************************************************)
\* a Series built row by row, as the tuple of its values
Series(f) == f \o <<>>

Column(df, c) == Series([i \in 1..Len(df) |-> Num(df[i][c])])

\* Series.shift(n): the value n rows earlier (n < 0: later), NaN where there is none
shift(s, n) == Series([i \in 1..Len(s) |-> IF i - n >= 1 /\ i - n <= Len(s) THEN s[i - n] ELSE NaN])

Window(s, i, w) == {s[j] : j \in (i - w + 1)..i}
HasNaN(S) == \E x \in S : IsNaN(x)
MinOf(S) == CHOOSE x \in S : \A y \in S : Le(x, y)
MaxOf(S) == CHOOSE x \in S : \A y \in S : Ge(x, y)

RECURSIVE SumFrom(_, _, _)
SumFrom(s, a, b) == IF a > b THEN Num(0) ELSE RAdd(s[a], SumFrom(s, a + 1, b))

\* Series.rolling(window=w).min() / .max() / .mean(): min_periods = w, NaN in the
\* window gives NaN
rolling_min(s, w) ==
    Series([i \in 1..Len(s) |-> IF i < w \/ HasNaN(Window(s, i, w)) THEN NaN ELSE MinOf(Window(s, i, w))])
rolling_max(s, w) ==
    Series([i \in 1..Len(s) |-> IF i < w \/ HasNaN(Window(s, i, w)) THEN NaN ELSE MaxOf(Window(s, i, w))])
rolling_mean(s, w) ==
    Series([i \in 1..Len(s) |-> IF i < w \/ HasNaN(Window(s, i, w)) THEN NaN
                         ELSE RDiv(SumFrom(s, i - w + 1, i), Num(w))])

\* Series.ewm(span=span, adjust=False).mean(): y[1] = x[1],
\* y[i] = (1 - alpha) * y[i-1] + alpha * x[i] with alpha = 2 / (span + 1)
RECURSIVE ewm_mean(_, _, _)
ewm_mean(s, span, i) ==
    IF i = 1 THEN s[1]
    ELSE RAdd(RMul(Rat(span - 1, span + 1), ewm_mean(s, span, i - 1)),
              RMul(Rat(2, span + 1), s[i]))
ewm(s, span) == Series([i \in 1..Len(s) |-> ewm_mean(s, span, i)])

\* Indicator.get_params: int(v) for the *_period keys, the other keys unchanged
int(v) == v[1] \div v[2]
IsPeriod(key) == key \in {"k_period", "d_period", "fast_period", "slow_period",
                          "signal_period", "rsi_period"}
get_params(params) ==
    [key \in DOMAIN params |-> IF IsPeriod(key) THEN Num(int(params[key])) ELSE params[key]]

(***************************************************************************)
(* The three strategies.  A frame is the bar frame with the two columns    *)
(* calculate adds that the callers read: reversal and is_strong.           *)
(***************************************************************************)
Strategies == {"KD", "MACD", "RSI"}
Modes == {"train", "check"}

\* `if mode == 'check':' -- mutant: the confirmation is applied in every mode
UsesConfirmation_Always(mode) == TRUE
\* mutant: the confirmation is applied in no mode
UsesConfirmation_Never(mode) == FALSE
UsesConfirmation(mode) == mode = "check"

\* `cond &= confirmation' -- mutant: |=
Confirmed_Or(cond, confirmation) == Series([i \in 1..Len(cond) |-> cond[i] \/ confirmation[i]])
Confirmed(cond, confirmation) == Series([i \in 1..Len(cond) |-> cond[i] /\ confirmation[i]])

\* np.select([support_cond, resistance_cond], [..], 'none') and is_strong
Signals(support_cond, resistance_cond) ==
    Series([i \in 1..Len(support_cond) |->
        LET reversal == IF support_cond[i] THEN "support reversal"
                        ELSE IF resistance_cond[i] THEN "resistance reversal"
                        ELSE "none"
        IN [reversal |-> reversal, is_strong |-> IF reversal # "none" THEN 1 ELSE 0]])

KD_stochastic(high, low, close, k_period, d_period) ==
    LET low_min == rolling_min(low, k_period)
        high_max == rolling_max(high, k_period)
        k == Series([i \in 1..Len(close) |->
                 RDiv(RMul(Num(100), RSub(close[i], low_min[i])), RSub(high_max[i], low_min[i]))])
    IN <<k, rolling_mean(k, d_period)>>

KD_future_confirmation(df, is_support) ==
    LET open == Column(df, "open")
        high == Column(df, "high")
        low == Column(df, "low")
        close == Column(df, "close")
        open1 == shift(open, -1)
        high1 == shift(high, -1)
        low1 == shift(low, -1)
        close1 == shift(close, -1)
        close2 == shift(close, -2)
    IN Series([i \in 1..Len(df) |->
          IF is_support
          THEN \/ Gt(close1[i], close[i]) /\ Le(open1[i], close1[i])
               \/ Gt(close1[i], high[i]) /\ Ge(open1[i], high[i])
               \/ Gt(close2[i], high[i]) /\ Gt(close2[i], high1[i])
          ELSE \/ Lt(close1[i], close[i]) /\ Ge(open1[i], close1[i])
               \/ Lt(close1[i], low[i]) /\ Le(open1[i], low[i])
               \/ Lt(close2[i], low[i]) /\ Lt(close2[i], low1[i])])

KD_calculate(df, raw, mode) ==
    LET params == get_params(raw)
        kd == KD_stochastic(Column(df, "high"), Column(df, "low"), Column(df, "close"),
                            int(params.k_period), int(params.d_period))
        k == kd[1]
        d == kd[2]
        k1 == shift(k, 1)
        d1 == shift(d, 1)
        support_cond == Series([i \in 1..Len(df) |->
                            Gt(k[i], d[i]) /\ Le(k1[i], d1[i]) /\ Lt(d[i], params.oversold)])
        resistance_cond == Series([i \in 1..Len(df) |->
                            Lt(k[i], d[i]) /\ Ge(k1[i], d1[i]) /\ Gt(d[i], params.overbought)])
    IN IF UsesConfirmation(mode)
       THEN Signals(Confirmed(support_cond, KD_future_confirmation(df, TRUE)),
                    Confirmed(resistance_cond, KD_future_confirmation(df, FALSE)))
       ELSE Signals(support_cond, resistance_cond)

MACD_macd(close, fast_period, slow_period, signal_period) ==
    LET ema_fast == ewm(close, fast_period)
        ema_slow == ewm(close, slow_period)
        macd == Series([i \in 1..Len(close) |-> RSub(ema_fast[i], ema_slow[i])])
    IN <<macd, ewm(macd, signal_period)>>

MACD_future_confirmation(df, is_support) ==
    LET open == Column(df, "open")
        close == Column(df, "close")
        open1 == shift(open, -1)
        close1 == shift(close, -1)
        close2 == shift(close, -2)
    IN Series([i \in 1..Len(df) |->
          IF is_support
          THEN \/ Gt(close1[i], close[i]) /\ Le(open1[i], close1[i])
               \/ Gt(close2[i], close[i]) /\ Gt(close2[i], close1[i])
          ELSE \/ Lt(close1[i], close[i]) /\ Ge(open1[i], close1[i])
               \/ Lt(close2[i], close[i]) /\ Lt(close2[i], close1[i])])

MACD_calculate(df, raw, mode) ==
    LET params == get_params(raw)
        ms == MACD_macd(Column(df, "close"), int(params.fast_period), int(params.slow_period),
                        int(params.signal_period))
        macd == ms[1]
        signal == ms[2]
        macd1 == shift(macd, 1)
        signal1 == shift(signal, 1)
        support_cond == Series([i \in 1..Len(df) |->
                            Gt(macd[i], signal[i]) /\ Le(macd1[i], signal1[i]) /\ Gt(macd[i], Num(0))])
        resistance_cond == Series([i \in 1..Len(df) |->
                            Lt(macd[i], signal[i]) /\ Ge(macd1[i], signal1[i]) /\ Lt(macd[i], Num(0))])
    IN IF Gt(RMul(params.fast_period, Rat(3, 2)), params.slow_period)
       THEN Series([i \in 1..Len(df) |-> [reversal |-> "none", is_strong |-> 0]])
       ELSE IF UsesConfirmation(mode)
       THEN Signals(Confirmed(support_cond, MACD_future_confirmation(df, TRUE)),
                    Confirmed(resistance_cond, MACD_future_confirmation(df, FALSE)))
       ELSE Signals(support_cond, resistance_cond)

\* delta = close.diff(); delta.where(delta > 0, 0) is 0 where delta is NaN (row 1);
\* rs = gain / loss; rsi = 100 - 100 / (1 + rs), where x / 0 = inf for x > 0 and
\* 100 / inf = 0
RSI_rsi(close, period) ==
    LET delta == Series([i \in 1..Len(close) |-> RSub(close[i], shift(close, 1)[i])])
        up == Series([i \in 1..Len(close) |-> IF Gt(delta[i], Num(0)) THEN delta[i] ELSE Num(0)])
        down == Series([i \in 1..Len(close) |->
                    IF Lt(delta[i], Num(0)) THEN RSub(Num(0), delta[i]) ELSE Num(0)])
        gain == rolling_mean(up, period)
        loss == rolling_mean(down, period)
    IN Series([i \in 1..Len(close) |->
          IF IsNaN(gain[i]) \/ IsNaN(loss[i]) THEN NaN
          ELSE IF loss[i] = Num(0) THEN (IF gain[i] = Num(0) THEN NaN ELSE Num(100))
          ELSE RSub(Num(100), RDiv(Num(100), RAdd(Num(1), RDiv(gain[i], loss[i]))))])

RSI_future_confirmation(df, is_support) ==
    LET high == Column(df, "high")
        low == Column(df, "low")
        close1 == shift(Column(df, "close"), -1)
        close2 == shift(Column(df, "close"), -2)
    IN Series([i \in 1..Len(df) |->
          IF is_support
          THEN Gt(close1[i], high[i]) \/ Lt(high[i], close2[i])
          ELSE Lt(close1[i], low[i]) \/ Gt(low[i], close2[i])])

RSI_calculate(df, raw, mode) ==
    LET params == get_params(raw)
        rsi == RSI_rsi(Column(df, "close"), int(params.rsi_period))
        rsi1 == shift(rsi, 1)
        support_cond == Series([i \in 1..Len(df) |->
                            /\ Lt(rsi[i], params.oversold)
                            /\ Lt(rsi[i], rsi1[i])
                            /\ Lt(rsi1[i], params.oversold)])
        resistance_cond == Series([i \in 1..Len(df) |->
                            /\ Gt(rsi[i], params.overbought)
                            /\ Gt(rsi[i], rsi1[i])
                            /\ Gt(rsi1[i], params.overbought)])
    IN IF UsesConfirmation(mode)
       THEN Signals(Confirmed(support_cond, RSI_future_confirmation(df, TRUE)),
                    Confirmed(resistance_cond, RSI_future_confirmation(df, FALSE)))
       ELSE Signals(support_cond, resistance_cond)

\* indicator.calculate(df, params, mode) for indicator = KD(), MACD() or RSI()
calculate(strategy, df, raw, mode) ==
    CASE strategy = "KD" -> KD_calculate(df, raw, mode)
      [] strategy = "MACD" -> MACD_calculate(df, raw, mode)
      [] strategy = "RSI" -> RSI_calculate(df, raw, mode)

future_confirmation(strategy, df, is_support) ==
    CASE strategy = "KD" -> KD_future_confirmation(df, is_support)
      [] strategy = "MACD" -> MACD_future_confirmation(df, is_support)
      [] strategy = "RSI" -> RSI_future_confirmation(df, is_support)

(***************************************************************************)
(* Two bar histories that agree up to index cut, and one calculate on      *)
(* both.                                                                   *)
(***************************************************************************)
Bar(o, h, l, c) == [open |-> o, high |-> h, low |-> l, close |-> c]

\* the bars a history is made of: a falling bar, a wide bar closing inside its
\* range, a rising bar one level up
Candles == {Bar(2, 2, 1, 1), Bar(1, 3, 1, 2), Bar(2, 3, 2, 3)}

\* raw parameters as the optimizer proposes them (floats); the periods are scaled
\* down from the search space of get_space to fit histories of MaxBars bars
ParamSpace(strategy) ==
    CASE strategy = "KD" ->
           {[k_period |-> Rat(5, 2), d_period |-> Num(2), overbought |-> Num(55),
             oversold |-> Num(45)]}
      [] strategy = "MACD" ->
           {[fast_period |-> Num(1), slow_period |-> Num(2), signal_period |-> Num(2)],
            [fast_period |-> Num(2), slow_period |-> Num(2), signal_period |-> Num(2)]}
      [] strategy = "RSI" ->
           {[rsi_period |-> Num(2), oversold |-> Num(40), overbought |-> Num(60)]}

InitInd ==
    /\ InitStore /\ observed = {}
    /\ conn = [w \in Writers |-> [backend |-> "sqlite", inst |-> "main"]]
    /\ NoIndicator

\* a bar of the common history
AppendBar(b) ==
    /\ call = <<>>
    /\ Len(bars) = cut /\ Len(bars2) = cut /\ cut < MaxBars
    /\ bars' = Append(bars, b)
    /\ bars2' = Append(bars2, b)
    /\ cut' = cut + 1
    /\ UNCHANGED <<frame, frame2, call, ta>>
    /\ UNCHANGED <<storeVars, liveVars>> /\ UNCHANGED evalVars

\* a bar after index cut of the first history
FutureBar(b) ==
    /\ call = <<>>
    /\ cut >= 1
    /\ Len(bars) < cut + MaxFuture /\ Len(bars) < MaxBars
    /\ bars' = Append(bars, b)
    /\ UNCHANGED <<bars2, cut, frame, frame2, call, ta>>
    /\ UNCHANGED <<storeVars, liveVars>> /\ UNCHANGED evalVars

\* a bar after index cut of the second history
MutateFuture(b) ==
    /\ call = <<>>
    /\ cut >= 1
    /\ Len(bars2) < cut + MaxFuture /\ Len(bars2) < MaxBars
    /\ bars2' = Append(bars2, b)
    /\ UNCHANGED <<bars, cut, frame, frame2, call, ta>>
    /\ UNCHANGED <<storeVars, liveVars>> /\ UNCHANGED evalVars

\* indicator.calculate(df, params, mode) on each of the two histories
Calculate(strategy, raw, mode) ==
    /\ call = <<>>
    /\ cut >= 1
    /\ call' = <<[strategy |-> strategy, params |-> raw, mode |-> mode]>>
    /\ frame' = calculate(strategy, bars, raw, mode)
    /\ frame2' = calculate(strategy, bars2, raw, mode)
    /\ UNCHANGED <<bars, bars2, cut, ta>>
    /\ UNCHANGED <<storeVars, liveVars>> /\ UNCHANGED evalVars

\* one bar history, calculate in either mode
NextInd ==
    \/ \E b \in Candles : AppendBar(b)
    \/ \E s \in Strategies : \E raw \in ParamSpace(s) : \E m \in Modes : Calculate(s, raw, m)

SpecInd == InitInd /\ [][NextInd]_vars

\* two bar histories with different futures, calculate in train mode (the mode of
\* the optimizer)
NextPair ==
    \/ \E b \in Candles : AppendBar(b)
    \/ \E b \in Candles : FutureBar(b)
    \/ \E b \in Candles : MutateFuture(b)
    \/ \E s \in Strategies : \E raw \in ParamSpace(s) : Calculate(s, raw, "train")

SpecPair == InitInd /\ [][NextPair]_vars

\* the (reversal, is_strong) signal of a row
Signal(row) == <<row.reversal, row.is_strong>>

\* C8: no lookahead in train mode -- for each strategy and parameters, the train-mode
\* signal (reversal, is_strong) at every index i <= cut is the same on two bar
\* histories that agree on the bars up to cut, whatever the bars after it are.
C8_TrainHasNoLookahead ==
    (call # <<>> /\ call[1].mode = "train") =>
        \A i \in 1..cut : Signal(frame[i]) = Signal(frame2[i])

\* a train-mode reversal on the last common bar of two histories with different futures,
\* one of which confirms the reversal while the other does not
C8_Witness ==
    /\ call # <<>> /\ call[1].mode = "train"
    /\ frame[cut].reversal = "support reversal"
    /\ frame2[cut].reversal = "support reversal"
    /\ future_confirmation(call[1].strategy, bars, TRUE)[cut]
    /\ ~future_confirmation(call[1].strategy, bars2, TRUE)[cut]
    /\ Len(bars2) > cut

\* the train-mode frame of the history and parameters of the last calculate
TrainFrame == calculate(call[1].strategy, bars, call[1].params, "train")

\* C10: check mode only removes signals -- for each strategy and parameters, a bar
\* carries a support (resistance) reversal in check mode only if it carries the same
\* reversal in train mode and the strategy's forward confirmation holds at that bar.
C10_CheckOnlyRemovesSignals ==
    (call # <<>> /\ call[1].mode = "check") =>
        \A i \in 1..Len(bars) :
            /\ frame[i].reversal = "support reversal" =>
                  /\ TrainFrame[i].reversal = "support reversal"
                  /\ future_confirmation(call[1].strategy, bars, TRUE)[i]
            /\ frame[i].reversal = "resistance reversal" =>
                  /\ TrainFrame[i].reversal = "resistance reversal"
                  /\ future_confirmation(call[1].strategy, bars, FALSE)[i]

\* a check-mode frame that keeps one reversal of the train-mode frame and drops another
C10_Witness ==
    /\ call # <<>> /\ call[1].mode = "check"
    /\ \E i \in 1..Len(bars) : frame[i].reversal # "none"
    /\ \E j \in 1..Len(bars) : TrainFrame[j].reversal # "none" /\ frame[j].reversal = "none"

(***************************************************************************)
(* The evaluator (signal_analysis/tool.py) and the scores                  *)
(* (indicators.py, calculate_score).                                       *)
(***************************************************************************)
RAbs(x) == IF IsNaN(x) THEN NaN ELSE <<Abs(x[1]), x[2]>>
RMin(x, y) == IF Le(x, y) THEN x ELSE y

\* DataFrame.max(axis=1): the largest value of a row that is not NaN
RowMax(S) == LET V == {x \in S : ~IsNaN(x)} IN IF V = {} THEN NaN ELSE MaxOf(V)

\* Series.rolling(window=w, min_periods=1).mean() / .min() / .max(): over the values of
\* the window that are not NaN, NaN when there is none
RECURSIVE SumOfSeq(_)
SumOfSeq(q) ==
    IF q = <<>> THEN Num(0)
    ELSE IF Len(q) = 1 THEN q[1]
    ELSE RAdd(SumOfSeq(SubSeq(q, 1, Len(q) \div 2)),
              SumOfSeq(SubSeq(q, Len(q) \div 2 + 1, Len(q))))
Valid(s, i, w) == SelectSeq(SubSeq(s, IF i - w + 1 < 1 THEN 1 ELSE i - w + 1, i),
                            LAMBDA x : ~IsNaN(x))
Range(q) == {q[j] : j \in 1..Len(q)}
rolling_mean_min1(s, w) ==
    Series([i \in 1..Len(s) |->
        IF Valid(s, i, w) = <<>> THEN NaN
        ELSE RDiv(SumOfSeq(Valid(s, i, w)), Num(Len(Valid(s, i, w))))])
rolling_min_min1(s, w) ==
    Series([i \in 1..Len(s) |->
        IF Valid(s, i, w) = <<>> THEN NaN ELSE MinOf(Range(Valid(s, i, w)))])
rolling_max_min1(s, w) ==
    Series([i \in 1..Len(s) |->
        IF Valid(s, i, w) = <<>> THEN NaN ELSE MaxOf(Range(Valid(s, i, w)))])

ATR(high, low, close, period) ==
    LET close1 == shift(close, 1)
        TR == Series([i \in 1..Len(high) |->
                  RowMax({RSub(high[i], low[i]),
                          RAbs(RSub(high[i], close1[i])),
                          RAbs(RSub(low[i], close1[i]))})])
    IN rolling_mean_min1(TR, period)

\* for i in range(len(series) - look_ahead): max / min of series[i+1 : i+1+look_ahead];
\* NaN for the other rows
get_future_range_numba(series, look_ahead, is_high) ==
    Series([i \in 1..Len(series) |->
        IF i > Len(series) - look_ahead THEN NaN
        ELSE IF is_high THEN MaxOf({series[j] : j \in (i + 1)..(i + look_ahead)})
        ELSE MinOf({series[j] : j \in (i + 1)..(i + look_ahead)})])

\* df[df['reversal'] == ..][column].tolist(): the wins column at the rows of one
\* reversal, in row order
RECURSIVE Trades(_, _, _, _)
Trades(wins, signals, reversal, i) ==
    IF i > Len(wins) THEN <<>>
    ELSE (IF signals[i].reversal = reversal THEN <<wins[i]>> ELSE <<>>)
         \o Trades(wins, signals, reversal, i + 1)

\* runs test of the win/loss sequence: 0 for fewer than 30 trades, which is every
\* sequence of the bar histories modelled here (at most one trade per bar); the value
\* for 30 trades and more (a quotient with a square root) is not modelled
trading_system_z_score(trades) == IF Len(trades) < 30 THEN Num(0) ELSE NaN

\* the mean of the 0/1 column wins over the rows in idx, 0 when idx is empty
\* -- mutant: .sum() in place of .mean()
MeanOver_Sum(wins, idx) == Num(Cardinality({i \in idx : wins[i] = 1}))
MeanOver(wins, idx) ==
    IF idx = {} THEN Num(0)
    ELSE Rat(Cardinality({i \in idx : wins[i] = 1}), Cardinality(idx))

\* df: the bar frame; signals: the reversal / is_strong columns calculate added.
\* detailed_df: the columns calculate_win_rate adds to its copy of the frame
detailed_df(df, signals, look_ahead, target_multiplier, atr_period, check_high_low) ==
    LET high == Column(df, "high")
        low == Column(df, "low")
        close == Column(df, "close")
        atr == ATR(high, low, close, atr_period)
        support_target == Series([i \in 1..Len(df) |-> RAdd(close[i], RMul(atr[i], target_multiplier))])
        resistance_target == Series([i \in 1..Len(df) |-> RSub(close[i], RMul(atr[i], target_multiplier))])
        future_high == get_future_range_numba(high, look_ahead, TRUE)
        future_low == get_future_range_numba(low, look_ahead, FALSE)
        recent_high == rolling_max_min1(high, 3)
        recent_low == rolling_min_min1(low, 3)
    IN [atr |-> atr,
        support_target |-> support_target,
        resistance_target |-> resistance_target,
        future_high |-> future_high,
        future_low |-> future_low,
        recent_high |-> recent_high,
        recent_low |-> recent_low,
        support_win |-> Series([i \in 1..Len(df) |->
            IF /\ signals[i].reversal = "support reversal"
               /\ Ge(future_high[i], support_target[i])
               /\ (check_high_low => Le(recent_low[i], future_low[i]))
            THEN 1 ELSE 0]),
        resistance_win |-> Series([i \in 1..Len(df) |->
            IF /\ signals[i].reversal = "resistance reversal"
               /\ Le(future_low[i], resistance_target[i])
               /\ (check_high_low => Ge(recent_high[i], future_high[i]))
            THEN 1 ELSE 0])]

WinRates(signals, support_win, resistance_win) ==
    LET rows == 1..Len(signals)
        support_signals == {i \in rows : signals[i].reversal = "support reversal"}
        resistance_signals == {i \in rows : signals[i].reversal = "resistance reversal"}
        strong_support_signals == {i \in support_signals : signals[i].is_strong = 1}
        strong_resistance_signals == {i \in resistance_signals : signals[i].is_strong = 1}
    IN [support_win_rate |-> MeanOver(support_win, support_signals),
        support_signals_count |-> Cardinality(support_signals),
        resistance_win_rate |-> MeanOver(resistance_win, resistance_signals),
        resistance_signals_count |-> Cardinality(resistance_signals),
        strong_support_win_rate |-> MeanOver(support_win, strong_support_signals),
        strong_support_signals_count |-> Cardinality(strong_support_signals),
        strong_resistance_win_rate |-> MeanOver(resistance_win, strong_resistance_signals),
        strong_resistance_signals_count |-> Cardinality(strong_resistance_signals),
        support_recall |-> IF support_signals = {} THEN Num(0)
                           ELSE Rat(Cardinality(strong_support_signals), Cardinality(support_signals)),
        resistance_recall |-> IF resistance_signals = {} THEN Num(0)
                              ELSE Rat(Cardinality(strong_resistance_signals),
                                       Cardinality(resistance_signals)),
        support_z_score |->
            trading_system_z_score(Trades(support_win, signals, "support reversal", 1)),
        resistance_z_score |->
            trading_system_z_score(Trades(resistance_win, signals, "resistance reversal", 1))]

calculate_win_rate(df, signals, look_ahead, target_multiplier, atr_period, check_high_low) ==
    LET d == detailed_df(df, signals, look_ahead, target_multiplier, atr_period, check_high_low)
    IN WinRates(signals, d.support_win, d.resistance_win)

\* Indicator.calculate_score: the harmonic mean of the two sides' scores, times the
\* penalty for too few strong signals
F1(win_rate, recall) ==
    IF Gt(RAdd(win_rate, recall), Num(0))
    THEN RDiv(RMul(Num(2), RMul(win_rate, recall)), RAdd(win_rate, recall))
    ELSE Num(0)
HarmonicScore_Unguarded(support_f1, resistance_f1) ==
    RDiv(Num(2), RAdd(RDiv(Num(1), support_f1), RDiv(Num(1), resistance_f1)))
HarmonicScore(support_f1, resistance_f1) ==
    IF Gt(support_f1, Num(0)) /\ Gt(resistance_f1, Num(0))
    THEN RDiv(Num(2), RAdd(RDiv(Num(1), support_f1), RDiv(Num(1), resistance_f1)))
    ELSE Num(0)
signal_count_penalty(result, signal_count_target) ==
    LET s == result.strong_support_signals_count
        r == result.strong_resistance_signals_count
    IN RMin(Num(1), RDiv(Num(IF s <= r THEN s ELSE r), signal_count_target))
KD_calculate_score(result, signal_count_target) ==
    RMul(HarmonicScore(F1(result.strong_support_win_rate, result.support_recall),
                       F1(result.strong_resistance_win_rate, result.resistance_recall)),
         signal_count_penalty(result, signal_count_target))
MACD_calculate_score_Whole(result, signal_count_target) ==
    RMul(HarmonicScore(result.strong_support_win_rate, result.strong_resistance_win_rate),
         signal_count_penalty(result, signal_count_target))
MACD_calculate_score(result, signal_count_target) ==
    RMul(HarmonicScore(result.strong_support_win_rate, result.strong_resistance_win_rate),
         signal_count_penalty(result, RDiv(signal_count_target, Num(3))))
RSI_calculate_score(result, signal_count_target) ==
    RMul(HarmonicScore(result.strong_support_win_rate, result.strong_resistance_win_rate),
         signal_count_penalty(result, RDiv(signal_count_target, Num(3))))
calculate_score(strategy, result, signal_count_target) ==
    CASE strategy = "KD" -> KD_calculate_score(result, signal_count_target)
      [] strategy = "MACD" -> MACD_calculate_score(result, signal_count_target)
      [] strategy = "RSI" -> RSI_calculate_score(result, signal_count_target)

\* the market regime of technical_analysis
determine_look_ahead_AtLeast(volatility, trend_length) ==
    IF Ge(volatility, Rat(3, 100)) /\ Lt(trend_length, Num(7)) THEN 7
    ELSE IF Lt(volatility, Rat(2, 100)) /\ Gt(trend_length, Num(10)) THEN 14
    ELSE 10
determine_look_ahead(volatility, trend_length) ==
    IF Gt(volatility, Rat(3, 100)) /\ Lt(trend_length, Num(7)) THEN 7
    ELSE IF Lt(volatility, Rat(2, 100)) /\ Gt(trend_length, Num(10)) THEN 14
    ELSE 10
get_signal_target_percentage(volatility) ==
    IF Ge(volatility, Rat(35, 1000)) THEN Rat(7, 100)
    ELSE IF Ge(volatility, Rat(10, 1000)) THEN Rat(5, 100)
    ELSE Rat(3, 100)

\* the mean of the returns (future_high - close) / atr and (close - future_low) / atr
\* over the rows that have a future range, 1.0 when there is none
calculate_target_multiplier(df, atr_period, look_ahead) ==
    LET high == Column(df, "high")
        low == Column(df, "low")
        close == Column(df, "close")
        atr == ATR(high, low, close, atr_period)
        future_high == get_future_range_numba(high, look_ahead, TRUE)
        future_low == get_future_range_numba(low, look_ahead, FALSE)
        support_returns == Series([i \in 1..Len(df) |->
                               RDiv(RSub(future_high[i], close[i]), atr[i])])
        resistance_returns == Series([i \in 1..Len(df) |->
                                  RDiv(RSub(close[i], future_low[i]), atr[i])])
        valid_returns == SelectSeq(support_returns, LAMBDA x : ~IsNaN(x))
                         \o SelectSeq(resistance_returns, LAMBDA x : ~IsNaN(x))
    IN IF Len(valid_returns) > 0
       THEN RDiv(SumOfSeq(valid_returns), Num(Len(valid_returns)))
       ELSE Num(1)

(***************************************************************************)
(* technical_analysis (signal_analysis/analysis.py): the parameter search  *)
(* and the result that is handed back for persistence.                     *)
(*                                                                         *)
(* analysis.py reaches its helpers through `from .KD import *'.  KD.py     *)
(* defines calculate_win_rate, analyze_market_states and the regime        *)
(* functions itself (older versions, written for the columns of the KD     *)
(* divergence frame) and does not define run_bayes_optimization or         *)
(* display_signals, which exist only in tool.py.  The body of              *)
(* technical_analysis is written against the tool.py functions (the        *)
(* 'Historical_Volatility' column, the is_strong column, the seven-field   *)
(* argument tuple); the model binds the names to tool.py.                  *)
(***************************************************************************)
indicators == Strategies
IndicatorTypes == indicators \cup {"BOLL"}

\* `mode='train'' in Optimization.__call__ -- mutant: 'check'
ObjectiveMode_Check == "check"
ObjectiveMode == "train"

patience == 100
min_delta == Rat(1, 1000)

\* the values calculate_atr_period and the last row of analyze_market_states can
\* take: the default period in a volatile market with short trends, a dominant
\* period in a quiet market with long trends
MarketStates ==
    {[atr_period |-> 20, Historical_Volatility |-> Rat(4, 100), Trend_Length |-> Num(5)],
     [atr_period |-> 6, Historical_Volatility |-> Rat(1, 200), Trend_Length |-> Num(12)]}

\* the look_ahead argument: 0 (the default, take the regime's) or an explicit horizon
LookAheads == {0, 1}

RNeg(x) == RSub(Num(0), x)

\* the summary a call of calculate_win_rate on indicator.calculate(df, params, mode)
\* returns
Evaluate(strategy, df, params, mode, look_ahead, target_multiplier, atr_period) ==
    calculate_win_rate(df, calculate(strategy, df, params, mode),
                       look_ahead, target_multiplier, atr_period, TRUE)

\* Optimization.__call__(params): the evaluated summary and the loss
Objective(o, params) ==
    LET result == Evaluate(o.indicator, o.df, params, ObjectiveMode,
                           o.look_ahead, o.target_multiplier, o.atr_period)
    IN [mode |-> ObjectiveMode, params |-> params, result |-> result,
        loss |-> RNeg(calculate_score(o.indicator, result, o.signal_count_target))]

\* a search trial before its worker takes it
NewTrial == [st |-> "pending", n |-> 0, best |-> <<>>, best_score |-> <<>>,
             no_improvement_count |-> 0]

\* technical_analysis(df, name, indicator_type, evals, look_ahead) up to the start of
\* the pool: an unknown indicator type raises ValueError
\* indicators.get(indicator_type): the indicator, or None (<<>>) for an unknown type
indicators_get_default(indicator_type) ==
    IF indicator_type \in indicators THEN <<indicator_type>> ELSE <<"KD">>
indicators_get(indicator_type) ==
    IF indicator_type \in indicators THEN <<indicator_type>> ELSE <<>>

TechnicalAnalysis(indicator_type, evals, look_ahead_arg, state, processes) ==
    /\ ta.pc = "idle" /\ call = <<>>
    /\ Len(bars) = MaxBars
    /\ IF indicators_get(indicator_type) = <<>>
       THEN ta' = [pc |-> "raised", indicator_type |-> indicator_type]
       ELSE LET atr_period == state.atr_period
                look_ahead == IF look_ahead_arg <= 0
                              THEN determine_look_ahead(state.Historical_Volatility,
                                                        state.Trend_Length)
                              ELSE look_ahead_arg
                target_multiplier == calculate_target_multiplier(bars, atr_period, look_ahead)
                signal_target_percentage ==
                    get_signal_target_percentage(state.Historical_Volatility)
            IN ta' = [pc |-> "search",
                      indicator_type |-> indicator_type,
                      evals |-> evals,
                      n_processes |-> processes,
                      current_state |-> state,
                      signal_target_percentage |-> signal_target_percentage,
                      optimization |->
                          [df |-> bars, indicator |-> indicators_get(indicator_type)[1],
                           look_ahead |-> look_ahead,
                           target_multiplier |-> target_multiplier,
                           atr_period |-> atr_period,
                           signal_count_target |->
                               RMul(Num(Len(bars)), signal_target_percentage)],
                      trials |-> [i \in 1..n_optimizations |-> NewTrial],
                      evaluations |-> {},
                      finished |-> <<>>,
                      returned |-> <<>>]
    /\ UNCHANGED <<bars, bars2, cut, frame, frame2, call>>
    /\ UNCHANGED <<storeVars, liveVars>> /\ UNCHANGED evalVars

\* pool.imap: the next trial in order goes to a free worker
\* the pool hands the next task of imap to a free worker
CanDispatch(i) ==
    /\ ta.pc = "search"
    /\ ta.trials[i].st = "pending"
    /\ \A j \in 1..(i - 1) : ta.trials[j].st # "pending"
    /\ Cardinality({j \in 1..n_optimizations : ta.trials[j].st = "running"}) < ta.n_processes
Dispatch(i) ==
    /\ CanDispatch(i)
    /\ ta' = [ta EXCEPT !.trials[i].st = "running"]
    /\ UNCHANGED <<bars, bars2, cut, frame, frame2, call>>
    /\ UNCHANGED <<storeVars, liveVars>> /\ UNCHANGED evalVars

\* trials.best_trial after an evaluation: the first trial of the smallest loss
BestTrial(best, e) ==
    IF best = <<>> \/ Lt(e.loss, best[1].loss)
    THEN <<[loss |-> e.loss, params |-> e.params]>>
    ELSE best

early_stop_fn_late(t, current_score) ==
    IF t.best_score = <<>> \/ Gt(current_score, RAdd(t.best_score[1], min_delta))
    THEN [best_score |-> <<current_score>>, no_improvement_count |-> 0, stop |-> FALSE]
    ELSE [best_score |-> t.best_score,
          no_improvement_count |-> t.no_improvement_count + 1,
          stop |-> t.no_improvement_count + 1 > patience]
\* early_stop_fn(trials): best_score and no_improvement_count after the call, and
\* whether it says stop
early_stop_fn(t, current_score) ==
    IF t.best_score = <<>> \/ Gt(current_score, RAdd(t.best_score[1], min_delta))
    THEN [best_score |-> <<current_score>>, no_improvement_count |-> 0, stop |-> FALSE]
    ELSE [best_score |-> t.best_score,
          no_improvement_count |-> t.no_improvement_count + 1,
          stop |-> t.no_improvement_count + 1 >= patience]

TrialAfter_Over(t, best, early, max_evals) ==
    [st |-> IF early.stop \/ t.n + 1 > max_evals THEN "done" ELSE "running",
     n |-> t.n + 1,
     best |-> best,
     best_score |-> early.best_score,
     no_improvement_count |-> early.no_improvement_count]
\* the trial after one iteration of fmin that evaluated e and found the best trial best
TrialAfter(t, best, early, max_evals) ==
    [st |-> IF early.stop \/ t.n + 1 >= max_evals THEN "done" ELSE "running",
     n |-> t.n + 1,
     best |-> best,
     best_score |-> early.best_score,
     no_improvement_count |-> early.no_improvement_count]
Iterate(t, best, max_evals) ==
    TrialAfter(t, best, early_stop_fn(t, RNeg(best[1].loss)), max_evals)
Evaluated(i, e) ==
    [trial |-> i, mode |-> e.mode, params |-> e.params, result |-> e.result,
     loss |-> e.loss]
\* finished: the trials in the order in which their workers returned (history variable)
TrialsAfter(i, t) ==
    [ta EXCEPT !.trials[i] = t,
               !.finished = IF t.st = "done" THEN Append(@, i) ELSE @]
run_bayes_optimization(i, e) ==
    [TrialsAfter(i, Iterate(ta.trials[i], BestTrial(ta.trials[i].best, e), ta.evals))
        EXCEPT !.evaluations = @ \cup {Evaluated(i, e)}]

\* one iteration of fmin in run_bayes_optimization: the objective on a proposal from
\* the strategy's space, then early_stop_fn; the trial returns (score, best) at
\* max_evals or when early_stop_fn says stop
\* fmin of trial i goes on with a proposal
CanPropose(i, strategy) ==
    /\ ta.pc = "search" /\ ta.indicator_type = strategy
    /\ ta.trials[i].st = "running"
Propose(i, strategy, params) ==
    /\ CanPropose(i, strategy)
    /\ ta' = run_bayes_optimization(i, Objective(ta.optimization, params))
    /\ UNCHANGED <<bars, bars2, cut, frame, frame2, call>>
    /\ UNCHANGED <<storeVars, liveVars>> /\ UNCHANGED evalVars

\* np.argmax(scores): the first index of the largest score -- mutant: the last one
argmax_last(scores) ==
    CHOOSE i \in 1..Len(scores) :
        /\ \A j \in 1..Len(scores) : Ge(scores[i], scores[j])
        /\ \A j \in (i + 1)..Len(scores) : Lt(scores[j], scores[i])
argmax(scores) ==
    CHOOSE i \in 1..Len(scores) :
        /\ \A j \in 1..Len(scores) : Ge(scores[i], scores[j])
        /\ \A j \in 1..(i - 1) : Lt(scores[j], scores[i])

\* display_signals(df, title, params, result): the figure of a frame and its summary
display_signals(df, params, result) == [signals |-> df, params |-> params, result |-> result]

\* the dict technical_analysis returns
ReturnedDict(o, best_params, df_final, result, df_checked, result_checked) ==
    [performance |-> result,
     best_params |-> best_params,
     signal |-> df_final,
     plot |-> display_signals(df_final, best_params, result),
     checked_plot |-> display_signals(df_checked, best_params, result_checked),
     meta_info |->
         [strategy |-> o.indicator,
          period_end |-> Len(o.df),
          signal_target_percent |-> ta.signal_target_percentage,
          volatility |-> ta.current_state.Historical_Volatility,
          look_ahead |-> o.look_ahead,
          target_multiplier |-> o.target_multiplier,
          atr_period |-> o.atr_period]]

\* lines 80-90: the train-mode and the check-mode frame of the best parameters, each
\* with its summary
FinalResults(o, best_params, df_final, df_checked) ==
    ReturnedDict(o, best_params,
                 df_final,
                 calculate_win_rate(o.df, df_final, o.look_ahead, o.target_multiplier,
                                    o.atr_period, TRUE),
                 df_checked,
                 calculate_win_rate(o.df, df_checked, o.look_ahead, o.target_multiplier,
                                    o.atr_period, TRUE))
FinalSignals(o, best_params) ==
    FinalResults(o, best_params,
                 calculate(o.indicator, o.df, best_params, "train"),
                 calculate(o.indicator, o.df, best_params, "check"))

\* lines 69-71: the parameters of the first trial of the largest score
BestOf(trials) ==
    trials[argmax(Series([i \in 1..Len(trials) |-> RNeg(trials[i].best[1].loss)]))]
        .best[1].params

\* technical_analysis after the pool: the best trial's parameters, the train-mode and
\* the check-mode evaluation of them, and the returned dict
\* the results of all trials are in
CanReturn ==
    /\ ta.pc = "search"
    /\ \A i \in 1..n_optimizations : ta.trials[i].st = "done"
ReturnResult ==
    /\ CanReturn
    /\ ta' = [ta EXCEPT
                !.pc = "returned",
                !.returned = <<FinalSignals(ta.optimization, get_params(BestOf(ta.trials)))>>]
    /\ UNCHANGED <<bars, bars2, cut, frame, frame2, call>>
    /\ UNCHANGED <<storeVars, liveVars>> /\ UNCHANGED evalVars

\* one technical_analysis call on a bar history
NextTA ==
    \/ \E b \in Candles : AppendBar(b)
    \/ \E t \in IndicatorTypes : \E evals \in 1..MaxEvals : \E l \in LookAheads :
         \E state \in MarketStates : TechnicalAnalysis(t, evals, l, state, n_processes)
    \/ \E i \in 1..n_optimizations : Dispatch(i)
    \/ \E i \in 1..n_optimizations : \E s \in indicators :
         \E params \in ParamSpace(s) : Propose(i, s, params)
    \/ ReturnResult

SpecTA == InitInd /\ [][NextTA]_vars

\* the summary of the call's history under the given parameters and mode
SummaryOf(params, mode) ==
    Evaluate(ta.optimization.indicator, ta.optimization.df, params, mode,
             ta.optimization.look_ahead, ta.optimization.target_multiplier,
             ta.optimization.atr_period)

EvalCandles == {Bar(2, 4, 2, 3), Bar(2, 2, 1, 1)}

\* the reversal / is_strong values of a row
SignalRows ==
    {[reversal |-> "none", is_strong |-> 0],
     [reversal |-> "support reversal", is_strong |-> 1],
     [reversal |-> "support reversal", is_strong |-> 0],
     [reversal |-> "resistance reversal", is_strong |-> 1],
     [reversal |-> "resistance reversal", is_strong |-> 0]}

\* look_ahead, target_multiplier, atr_period, check_high_low of a call
EvalArgs ==
    [look_ahead : {1, 2}, target_multiplier : {Rat(1, 2), Num(1)}, atr_period : {2},
     check_high_low : {TRUE}]
    \cup [look_ahead : {1}, target_multiplier : {Num(1)}, atr_period : {20},
          check_high_low : {FALSE}]

\* one more row of the frame to evaluate
AppendRow(b, row) ==
    /\ wr = <<>> /\ call = <<>>
    /\ Len(bars) < MaxRows /\ Len(frame) = Len(bars)
    /\ bars' = Append(bars, b)
    /\ frame' = Append(frame, row)
    /\ UNCHANGED <<bars2, cut, frame2, call, ta, regime, batch>>
    /\ UNCHANGED <<wr>>
    /\ UNCHANGED <<storeVars, liveVars>>

\* calculate_win_rate(df, look_ahead, target_multiplier, atr_period, check_high_low)
CalculateWinRate(a) ==
    /\ wr = <<>> /\ call = <<>>
    /\ Len(bars) >= 1 /\ Len(frame) = Len(bars)
    /\ wr' = <<[args |-> a,
                detailed_df |-> detailed_df(bars, frame, a.look_ahead, a.target_multiplier,
                                            a.atr_period, a.check_high_low),
                result |-> calculate_win_rate(bars, frame, a.look_ahead,
                                              a.target_multiplier, a.atr_period,
                                              a.check_high_low)]>>
    /\ UNCHANGED <<bars, bars2, cut, frame, frame2, call, ta, regime, batch>>
    /\ UNCHANGED <<storeVars, liveVars>>

NextEval ==
    \/ \E b \in EvalCandles : \E row \in SignalRows : AppendRow(b, row)
    \/ \E a \in EvalArgs : CalculateWinRate(a)

SpecEval == InitInd /\ [][NextEval]_vars

\* a rate of the returned summary lies in [0, 1]
IsRate(x) == Ge(x, Num(0)) /\ Le(x, Num(1))

\* C11: for every signal frame and every look_ahead / target_multiplier / atr_period,
\* the support and resistance win_rate, strong win_rate and recall that
\* calculate_win_rate returns lie in [0, 1], and each is 0 when its signal set is empty.
C11_RatesWithinUnitInterval ==
    wr # <<>> =>
        LET r == wr[1].result IN
        /\ IsRate(r.support_win_rate) /\ IsRate(r.resistance_win_rate)
        /\ IsRate(r.strong_support_win_rate) /\ IsRate(r.strong_resistance_win_rate)
        /\ IsRate(r.support_recall) /\ IsRate(r.resistance_recall)
        /\ r.support_signals_count = 0 =>
              r.support_win_rate = Num(0) /\ r.support_recall = Num(0)
        /\ r.resistance_signals_count = 0 =>
              r.resistance_win_rate = Num(0) /\ r.resistance_recall = Num(0)
        /\ r.strong_support_signals_count = 0 => r.strong_support_win_rate = Num(0)
        /\ r.strong_resistance_signals_count = 0 => r.strong_resistance_win_rate = Num(0)

\* a summary with two support signals of which one wins and one is strong, and no
\* resistance signal
C11_Witness ==
    /\ wr # <<>>
    /\ wr[1].result.support_signals_count = 2
    /\ wr[1].result.support_win_rate = Rat(1, 2)
    /\ wr[1].result.support_recall = Rat(1, 2)
    /\ wr[1].result.resistance_signals_count = 0
    /\ wr[1].result.resistance_win_rate = Num(0)

\* the score a trial returned: -trials.best_trial['result']['loss']
ScoreOf(i) == RNeg(ta.trials[i].best[1].loss)

Rejected(strategy, params) ==
    strategy = "MACD" /\ Gt(RMul(get_params(params).fast_period, Rat(3, 2)),
                            get_params(params).slow_period)
Degenerate(strategy, e) ==
    \/ e.result.support_signals_count = 0
    \/ e.result.resistance_signals_count = 0
    \/ RAdd(e.result.strong_support_win_rate, e.result.support_recall) = Num(0)
    \/ RAdd(e.result.strong_resistance_win_rate, e.result.resistance_recall) = Num(0)
    \/ Rejected(strategy, e.params)
Codes == Symbols \cup {"SH.600519"}
CodeLists ==
    {l \in UNION {[1..n -> Codes] : n \in 0..MaxCodes} :
        \A i, j \in DOMAIN l : i # j => l[i] # l[j]}
Fetched == {"frame", "None"}
Analysed == {"result", "raises"}

RunAnalysis(code_list, data_files, result_files) ==
    /\ batch = <<>>
    /\ batch' = <<[pc |-> IF code_list = <<>> THEN "returned" ELSE "loop",
                   code_list |-> code_list, idx |-> 1,
                   data_files |-> data_files, result_files |-> result_files,
                   results |-> <<>>, summary_file |-> FALSE,
                   failed |-> {}, error |-> "none",
                   value |-> IF code_list = <<>> THEN "{}" ELSE "none",
                   main |-> "calling"]>>
    /\ UNCHANGED <<bars, bars2, cut, frame, frame2, call, ta, wr, regime>>
    /\ UNCHANGED <<storeVars, liveVars>>

\* the dict results after results[code] = result ("loaded" from the result file of the
\* day, or "trained" by technical_analysis)
ResultsWith(results, code, result) ==
    [c \in DOMAIN results \cup {code} |-> IF c = code THEN result ELSE results[c]]

\* one iteration of the loop over code_list; the iteration of the last symbol goes on
\* to write the summary file and return
ProcessSymbol(fetched, analysed) ==
    /\ batch # <<>> /\ batch[1].pc = "loop"
    /\ LET b == batch[1]
           code == b.code_list[b.idx]
           download == code \notin b.data_files
           train == code \notin b.result_files
           last == b.idx = Len(b.code_list)
       IN batch' =
            IF download /\ fetched = "None"
            THEN <<[b EXCEPT !.pc = "raised", !.failed = {code},
                             !.error = "AttributeError: df.to_csv"]>>
            ELSE IF train /\ analysed = "raises"
            THEN <<[b EXCEPT !.pc = "raised", !.failed = {code},
                             !.data_files = @ \cup {code},
                             !.error = "technical_analysis"]>>
            ELSE <<[b EXCEPT !.pc = IF last THEN "returned" ELSE "loop",
                             !.idx = @ + 1,
                             !.data_files = @ \cup {code},
                             !.result_files = @ \cup {code},
                             !.results = ResultsWith(@, code,
                                             IF train THEN "trained" ELSE "loaded"),
                             !.summary_file = last,
                             !.value = IF last THEN "(results, summary_file)" ELSE @]>>
    /\ UNCHANGED <<bars, bars2, cut, frame, frame2, call, ta, wr, regime>>
    /\ UNCHANGED <<storeVars, liveVars>>

\* __main__: results, result_file = run_analysis(...), the unpacking of what was
\* returned: a tuple of two gives the two names, the empty dict has nothing to give
MainUnpacks ==
    /\ batch # <<>> /\ batch[1].pc = "returned" /\ batch[1].main = "calling"
    /\ batch' = <<[batch[1] EXCEPT !.main = IF batch[1].value = "(results, summary_file)"
                                            THEN "continues"
                                            ELSE "ValueError: not enough values to unpack"]>>
    /\ UNCHANGED <<bars, bars2, cut, frame, frame2, call, ta, wr, regime>>
    /\ UNCHANGED <<storeVars, liveVars>>

NextBatch ==
    \/ \E code_list \in CodeLists : \E data_files \in SUBSET Codes :
         \E result_files \in SUBSET Codes :
            RunAnalysis(code_list, data_files, result_files)
    \/ \E fetched \in Fetched : \E analysed \in Analysed : ProcessSymbol(fetched, analysed)
    \/ MainUnpacks

SpecBatch == InitInd /\ [][NextBatch]_vars

\* C14: a symbol whose processing fails (no data, or technical_analysis raising) does
\* not end the batch: run_analysis does not raise, and when it has returned every other
\* symbol of the code list is in the results
C14_FailureDoesNotAbortBatch ==
    batch # <<>> =>
        /\ batch[1].pc # "raised"
        /\ batch[1].pc = "returned" =>
              \A i \in DOMAIN batch[1].code_list :
                  batch[1].code_list[i] \notin batch[1].failed =>
                      batch[1].code_list[i] \in DOMAIN batch[1].results

\* C15: technical_analysis called with an indicator type other than KD, MACD and RSI
\* raises at once: the call never holds a market state, a trial or an evaluation
C15_UnknownIndicatorRaisesAtOnce ==
    (ta.pc # "idle" /\ ta.indicator_type \notin {"KD", "MACD", "RSI"}) =>
        /\ ta.pc = "raised"
        /\ DOMAIN ta \cap {"current_state", "optimization", "trials", "evaluations",
                           "returned"} = {}

\* technical_analysis was called with BOLL on a full history, and raised
C15_Witness ==
    /\ ta.pc = "raised"
    /\ ta.indicator_type = "BOLL"
    /\ Len(bars) = MaxBars

(***************************************************************************)
(* The regime functions of src/signal_analysis/tool.py on a caller's       *)
(* frame: calculate_trend_duration, analyze_market_states and              *)
(* calculate_target_multiplier.  Dates are row positions.  A function      *)
(* works on df.copy(); the frame the caller holds after the call is kept   *)
(* in bars, so that an assignment reaching the caller's frame shows.       *)
(***************************************************************************)
df_copy_alias(df) == [alias |-> TRUE, rows |-> df]
df_copy(df) == [alias |-> FALSE, rows |-> df]
WithField(row, name, v) ==
    [k \in DOMAIN row \cup {name} |-> IF k = name THEN v ELSE row[k]]
\* df[name] = values on the working frame w
SetColumn(w, name, values) ==
    [w EXCEPT !.rows = Series([i \in 1..Len(w.rows) |-> WithField(w.rows[i], name, values[i])])]
\* the caller's frame after a call that worked on w
CallerFrame(df, w) == IF w.alias THEN w.rows ELSE df

Mean(q) == IF q = <<>> THEN NaN ELSE RDiv(SumOfSeq(q), Num(Len(q)))

\* one iteration of the loop of calculate_trend_duration, at row i: st holds
\* current_trend (t) and trends_data (trends)
TrendStep(ma_short, ma_middle, ma_long, i, st) ==
    LET is_uptrend == /\ Gt(ma_short[i], ma_middle[i]) /\ Gt(ma_middle[i], ma_long[i])
                      /\ Gt(ma_short[i], ma_short[i - 1])
        is_downtrend == /\ Lt(ma_short[i], ma_middle[i]) /\ Lt(ma_middle[i], ma_long[i])
                        /\ Lt(ma_short[i], ma_short[i - 1])
    IN IF st.t.direction = 0
       THEN [st EXCEPT !.t = IF is_uptrend THEN [direction |-> 1, days |-> 1]
                             ELSE IF is_downtrend THEN [direction |-> -1, days |-> 1]
                             ELSE @]
       ELSE IF (st.t.direction = 1 /\ is_uptrend) \/ (st.t.direction = -1 /\ is_downtrend)
       THEN [st EXCEPT !.t.days = @ + 1]
       ELSE [t |-> [direction |-> 0, days |-> 0],
             trends |-> IF st.t.days >= 5
                        THEN Append(st.trends, [trend_length |-> st.t.days,
                                                direction |-> st.t.direction,
                                                end_date |-> i])
                        ELSE st.trends]
\* the iterations at rows i..last, and the whole loop in runs of twenty rows
RECURSIVE TrendRun(_, _, _, _, _, _)
TrendRun(ma_short, ma_middle, ma_long, i, last, st) ==
    IF i > last \/ st.t.days < 0 THEN st
    ELSE TrendRun(ma_short, ma_middle, ma_long, i + 1, last,
                  TrendStep(ma_short, ma_middle, ma_long, i, st))
RECURSIVE TrendLoop(_, _, _, _, _)
TrendLoop(ma_short, ma_middle, ma_long, i, st) ==
    IF i > Len(ma_short) THEN st.trends
    ELSE TrendLoop(ma_short, ma_middle, ma_long, i + 20,
                   TrendRun(ma_short, ma_middle, ma_long, i,
                            IF i + 19 < Len(ma_short) THEN i + 19 ELSE Len(ma_short), st))

\* trends_df: its rows (the first and the last dropped when there are more than two) and
\* the frame with the moving averages; without a trend the DataFrame has no column
TrendsOf(close) ==
    TrendLoop(rolling_mean(close, 5), rolling_mean(close, 10), rolling_mean(close, 15),
              16, [t |-> [direction |-> 0, days |-> 0], trends |-> <<>>])
DropFirstLast_Always(trends) ==
    IF Len(trends) > 0 THEN SubSeq(trends, 2, Len(trends) - 1) ELSE trends
DropFirstLast(trends) ==
    IF Len(trends) > 2 THEN SubSeq(trends, 2, Len(trends) - 1) ELSE trends
calculate_trend_duration(df) ==
    LET close == Column(df, "close")
        w == SetColumn(SetColumn(SetColumn(df_copy(df),
                 "ma_short", rolling_mean(close, 5)),
                 "ma_middle", rolling_mean(close, 10)),
                 "ma_long", rolling_mean(close, 15))
    IN [trends_df |-> DropFirstLast(TrendsOf(close)),
        columns |-> IF TrendsOf(close) = <<>> THEN {}
                    ELSE {"trend_length", "direction", "end_date"},
        df |-> CallerFrame(df, w)]

\* np.array_split(df, n): the first Len(df) % n groups have one row more
GroupStart(L, n, g) == (g - 1) * (L \div n) + (IF g - 1 < (L % n) THEN g - 1 ELSE (L % n)) + 1
GroupEnd(L, n, g) == g * (L \div n) + (IF g < (L % n) THEN g ELSE (L % n))
group_count(L, period) == (L + period - 1) \div period

\* vol of the group of rows a..b
GroupVolatility(df, a, b, period) ==
    RDiv(Mean(ATR(SubSeq(Column(df, "high"), a, b), SubSeq(Column(df, "low"), a, b),
                  SubSeq(Column(df, "close"), a, b), period)),
         Mean(SubSeq(Column(df, "close"), a, b)))
Volatilities(df, period) ==
    Series([g \in 1..group_count(Len(df), period) |->
        GroupVolatility(df, GroupStart(Len(df), group_count(Len(df), period), g),
                        GroupEnd(Len(df), group_count(Len(df), period), g), period)])
\* trend_length of a group ending at group_end
GroupTrendLength(trends_df, group_end) ==
    LET historical_trends == SelectSeq(trends_df, LAMBDA r : r.end_date <= group_end)
    IN IF Len(historical_trends) > 0
       THEN Mean([j \in 1..Len(historical_trends) |-> Num(historical_trends[j].trend_length)])
       ELSE Num(0)
StateRows(L, n, volatility, trends_df) ==
    Series([g \in 1..n |->
        [Period |-> GroupEnd(L, n, g),
         Volatility |-> volatility[g],
         Historical_Volatility |-> Mean(SubSeq(volatility, 1, g)),
         Trend_Length |-> GroupTrendLength(trends_df, GroupEnd(L, n, g))]])
\* what the call does: it raises KeyError at trends_df[...]['trend_length'] when trends_df
\* has no column, and returns the frame of market states otherwise; df is the caller's
\* frame after the call
MarketStatesOf(df, period, trends) ==
    IF "trend_length" \notin trends.columns
    THEN [raised |-> "KeyError: 'trend_length'", rows |-> <<>>, df |-> trends.df]
    ELSE [raised |-> "none",
          rows |-> StateRows(Len(df), group_count(Len(df), period),
                             Volatilities(df, period), trends.trends_df),
          df |-> trends.df]
analyze_market_states(df, period) ==
    MarketStatesOf(df, period, calculate_trend_duration(CallerFrame(df, df_copy(df))))

\* calculate_target_multiplier with the caller's frame after the call
TargetMultiplierCall(df, atr_period, look_ahead) ==
    LET w == SetColumn(SetColumn(SetColumn(df_copy(df),
                 "atr", ATR(Column(df, "high"), Column(df, "low"), Column(df, "close"),
                            atr_period)),
                 "future_high", get_future_range_numba(Column(df, "high"), look_ahead, TRUE)),
                 "future_low", get_future_range_numba(Column(df, "low"), look_ahead, FALSE))
    IN [raised |-> "none",
        out |-> calculate_target_multiplier(df, atr_period, look_ahead),
        df |-> CallerFrame(df, w)]

\* the frames: the constant-price series, and series that rise and fall by one a bar
\* with a turn every k bars
Flat(n) == [i \in 1..n |-> Bar(2, 2, 2, 2)]
ZigPhase(i, k) == (i - 1) % (2 * k)
ZigPrice(i, k) == 10 + (IF ZigPhase(i, k) < k THEN ZigPhase(i, k)
                        ELSE 2 * k - ZigPhase(i, k))
Zig(n, k) == [i \in 1..n |-> Bar(ZigPrice(i, k), ZigPrice(i, k) + 1, ZigPrice(i, k) - 1,
                                 ZigPrice(i, k))]
RegimeFrames == {Flat(ZeroVolBars), Zig(30, 30), Zig(40, 20), Zig(60, 15), Zig(100, 12)}
Periods == {50, 60}
RegimeLookAheads == {7, 10, 14}

InitRegime ==
    /\ InitStore /\ observed = {}
    /\ conn = [w \in Writers |-> [backend |-> "sqlite", inst |-> "main"]]
    /\ bars \in RegimeFrames
    /\ bars2 = <<>> /\ cut = 0 /\ frame = <<>> /\ frame2 = <<>> /\ call = <<>>
    /\ ta = NoTa /\ wr = <<>> /\ regime = <<>> /\ batch = <<>>

AnalyzeMarketStates(period) ==
    /\ Len(regime) < MaxRegimeCalls
    /\ regime' = Append(regime, [fn |-> "analyze_market_states", args |-> <<period>>,
                                 df |-> bars,
                                 result |-> analyze_market_states(bars, period)])
    /\ bars' = analyze_market_states(bars, period).df
    /\ UNCHANGED <<bars2, cut, frame, frame2, call, ta, wr, batch>>
    /\ UNCHANGED <<storeVars, liveVars>>

CalculateTargetMultiplier(atr_period, look_ahead) ==
    /\ Len(regime) < MaxRegimeCalls
    /\ regime' = Append(regime, [fn |-> "calculate_target_multiplier",
                                 args |-> <<atr_period, look_ahead>>,
                                 df |-> bars,
                                 result |-> TargetMultiplierCall(bars, atr_period, look_ahead)])
    /\ bars' = TargetMultiplierCall(bars, atr_period, look_ahead).df
    /\ UNCHANGED <<bars2, cut, frame, frame2, call, ta, wr, batch>>
    /\ UNCHANGED <<storeVars, liveVars>>

NextRegime ==
    \/ \E period \in Periods : AnalyzeMarketStates(period)
    \/ \E atr_period \in Periods : \E look_ahead \in RegimeLookAheads :
         CalculateTargetMultiplier(atr_period, look_ahead)

SpecRegime == InitRegime /\ [][NextRegime]_vars

\* C16: on the series of 300 bars of one constant price analyze_market_states returns
\* market states whose last row has historical volatility 0 and gives lookahead 14 and
\* the density target 3%, and no call raises
C16_ZeroVolatilityRegime ==
    \A c \in 1..Len(regime) :
        (regime[c].fn = "analyze_market_states" /\ regime[c].df = Flat(ZeroVolBars)) =>
            /\ regime[c].result.raised = "none"
            /\ LET current_state == regime[c].result.rows[Len(regime[c].result.rows)]
               IN /\ current_state.Historical_Volatility = Num(0)
                  /\ determine_look_ahead(current_state.Historical_Volatility,
                                          current_state.Trend_Length) = 14
                  /\ get_signal_target_percentage(current_state.Historical_Volatility)
                        = Rat(3, 100)

Losses == {Num(0), RNeg(Rat(1, 1000)), RNeg(Rat(1, 500))}

WorkerResult(t, max_evals) ==
    IF t.st # "done" THEN t
    ELSE [st |-> "done", n |-> t.n, best |-> t.best, best_score |-> <<>>,
          no_improvement_count |-> IF t.n < max_evals THEN t.no_improvement_count ELSE 0]

RunOptimizations(max_evals) ==
    /\ ta.pc = "idle" /\ call = <<>> /\ bars = <<>>
    /\ ta' = [pc |-> "fmin", evals |-> max_evals,
              trials |-> [i \in 1..n_optimizations |-> NewTrial],
              finished |-> <<>>]
    /\ UNCHANGED <<bars, bars2, cut, frame, frame2, call>>
    /\ UNCHANGED <<storeVars, liveVars>> /\ UNCHANGED evalVars

\* the worker takes the next task of pool.imap
StartTrial(i) ==
    /\ ta.pc = "fmin"
    /\ ta.trials[i].st = "pending"
    /\ \A j \in 1..(i - 1) : ta.trials[j].st = "done"
    /\ ta' = [ta EXCEPT !.trials[i].st = "running"]
    /\ UNCHANGED <<bars, bars2, cut, frame, frame2, call>>
    /\ UNCHANGED <<storeVars, liveVars>> /\ UNCHANGED evalVars

\* one iteration of fmin in trial i whose objective returned loss
ProposeLoss(i, loss) ==
    /\ ta.pc = "fmin"
    /\ ta.trials[i].st = "running"
    /\ ta' = TrialsAfter(i, WorkerResult(
                 Iterate(ta.trials[i],
                         BestTrial(ta.trials[i].best, [loss |-> loss, params |-> <<>>]),
                         ta.evals),
                 ta.evals))
    /\ UNCHANGED <<bars, bars2, cut, frame, frame2, call>>
    /\ UNCHANGED <<storeVars, liveVars>> /\ UNCHANGED evalVars

NextStop ==
    \/ \E max_evals \in {3, MaxProposals} : RunOptimizations(max_evals)
    \/ \E i \in 1..n_optimizations : StartTrial(i)
    \/ \E i \in 1..n_optimizations : \E loss \in Losses : ProposeLoss(i, loss)

SpecStop == InitInd /\ [][NextStop]_vars

\* the best score of the proposals of a trial so far
CurrentScore(t) == RNeg(t.best[1].loss)
\* a proposal of trial i was made in this step and the trial goes on
Proposed(i) ==
    /\ ta.pc = "fmin" /\ ta'.pc = "fmin"
    /\ ta.trials[i].st = "running" /\ ta'.trials[i].st = "running"
    /\ ta'.trials[i].n = ta.trials[i].n + 1
Improved(i) ==
    \/ ta.trials[i].best_score = <<>>
    \/ Gt(CurrentScore(ta'.trials[i]), RAdd(ta.trials[i].best_score[1], Rat(1, 1000)))
StoppingRule ==
    ta.pc = "fmin" =>
        \A i \in 1..n_optimizations :
            /\ ta.trials[i].st = "pending" => ta.trials[i] = NewTrial
            /\ ta.trials[i].st = "running" =>
                  /\ ta.trials[i].no_improvement_count < 100
                  /\ ta.trials[i].n < ta.evals
            /\ (ta.trials[i].st = "done" /\ ta.trials[i].n < ta.evals) =>
                  ta.trials[i].no_improvement_count = 100
CountingRule ==
    \A i \in 1..n_optimizations :
        Proposed(i) =>
            /\ IF Improved(i)
               THEN /\ ta'.trials[i].no_improvement_count = 0
                    /\ ta'.trials[i].best_score = <<CurrentScore(ta'.trials[i])>>
               ELSE /\ ta'.trials[i].no_improvement_count
                          = ta.trials[i].no_improvement_count + 1
                    /\ ta'.trials[i].best_score = ta.trials[i].best_score
            /\ \A j \in 1..n_optimizations : j # i => ta'.trials[j] = ta.trials[j]

\* C18: a trial stops before max_evals exactly at the proposal at which its count of
\* proposals without improvement reaches 100; a proposal that lifts the trial's best
\* score more than 0.001 above the recorded best records it and resets the count to 0,
\* any other proposal adds one to the count; a proposal of one trial leaves the other
\* trials' best score and count as they are
C18_PatienceEarlyStop == [](StoppingRule) /\ [][CountingRule]_vars

\* the first trial was stopped at its 101st proposal of 102; the second, started after
\* it, has its own count: 3 after 10 proposals
C18_Witness ==
    /\ ta.pc = "fmin" /\ ta.evals = MaxProposals
    /\ ta.trials[1].st = "done" /\ ta.trials[1].n = 101
    /\ ta.trials[1].no_improvement_count = 100
    /\ ta.trials[2].st = "running"
    /\ ta.trials[2].no_improvement_count = 3
    /\ ta.trials[2].n = 10

(***************************************************************************)
(* The search of technical_analysis for every pool size: cpu_count() is    *)
(* the machine's, so Pool(max(1, cpu_count() - 1)) has any size from 1 on. *)
(***************************************************************************)
NextPool ==
    \/ \E b \in Candles : AppendBar(b)
    \/ \E t \in IndicatorTypes : \E evals \in 1..MaxEvals : \E processes \in 1..n_processes :
         \E state \in MarketStates : TechnicalAnalysis(t, evals, 1, state, processes)
    \/ \E i \in 1..n_optimizations : Dispatch(i)
    \/ \E i \in 1..n_optimizations : \E s \in indicators :
         \E params \in ParamSpace(s) : Propose(i, s, params)
    \/ ReturnResult
SpecPool == InitInd /\ [][NextPool]_vars

\* the trials in the states a trial goes through, in order
Rank(st) == CASE st = "pending" -> 0 [] st = "running" -> 1 [] st = "done" -> 2
TrialsOnce ==
    ta.pc \in {"search", "returned"} =>
        /\ \A i \in 1..n_optimizations :
              /\ ta.trials[i].n <= ta.evals
              /\ ta.trials[i].st = "pending" => ta.trials[i].n = 0
              /\ ta.trials[i].st = "done" <=> \E k \in 1..Len(ta.finished) : ta.finished[k] = i
              /\ ta.trials[i].st = "done" => ta.trials[i].best # <<>>
              /\ Cardinality({e \in ta.evaluations : e.trial = i}) <= ta.trials[i].n
        /\ \A k, l \in 1..Len(ta.finished) : k # l => ta.finished[k] # ta.finished[l]
        /\ Cardinality({i \in 1..n_optimizations : ta.trials[i].st = "running"})
              <= ta.n_processes
        /\ ta.pc = "returned" =>
              /\ Len(ta.finished) = n_optimizations
              /\ \A i \in 1..n_optimizations : ta.trials[i].st = "done"
        /\ ta.pc = "search" => ta.returned = <<>>
\* what is left to do of a call: 2 + evals for each trial not started, less for one
\* that was, and the return
RECURSIVE Remaining(_, _)
Remaining(t, i) ==
    IF i > n_optimizations THEN IF t.pc = "returned" THEN 0 ELSE 1
    ELSE (2 - Rank(t.trials[i].st)) + (t.evals - t.trials[i].n) + Remaining(t, i + 1)
TrialsForward ==
    (ta.pc = "search" /\ ta'.pc \in {"search", "returned"}) =>
        /\ \A i \in 1..n_optimizations :
              /\ Rank(ta'.trials[i].st) >= Rank(ta.trials[i].st)
              /\ ta'.trials[i].n >= ta.trials[i].n
              /\ ta.trials[i].st = "done" => ta'.trials[i] = ta.trials[i]
        /\ Remaining(ta', 1) < Remaining(ta, 1)
\* a call that has not returned can take a step
NotStuck ==
    ta.pc = "search" =>
        \/ \E i \in 1..n_optimizations : CanDispatch(i)
        \/ \E i \in 1..n_optimizations : \E s \in indicators :
              CanPropose(i, s) /\ ParamSpace(s) # {}
        \/ CanReturn

ReachedBeforeUndercut(df, d, i, look_ahead) ==
    \E j \in (i + 1)..(i + look_ahead) :
        /\ Ge(Num(df[j].high), d.support_target[i])
        /\ \A k \in (i + 1)..j : Ge(Num(df[k].low), d.recent_low[i])
ReachedBeforeOvershoot(df, d, i, look_ahead) ==
    \E j \in (i + 1)..(i + look_ahead) :
        /\ Le(Num(df[j].low), d.resistance_target[i])
        /\ \A k \in (i + 1)..j : Le(Num(df[k].high), d.recent_high[i])

\* C20: with check_high_low, a support signal that has its look_ahead rows wins exactly
\* when the high reaches close + atr * target_multiplier before a low undercuts the
\* 3-bar low of the signal row (an undercut after that does not matter); the mirror
\* for a resistance signal
C20_WinIsTargetBeforeUndercut ==
    (wr # <<>> /\ wr[1].args.check_high_low) =>
        \A i \in 1..Len(bars) :
            i + wr[1].args.look_ahead <= Len(bars) =>
                /\ frame[i].reversal = "support reversal" =>
                      (wr[1].detailed_df.support_win[i] = 1
                          <=> ReachedBeforeUndercut(bars, wr[1].detailed_df, i,
                                                    wr[1].args.look_ahead))
                /\ frame[i].reversal = "resistance reversal" =>
                      (wr[1].detailed_df.resistance_win[i] = 1
                          <=> ReachedBeforeOvershoot(bars, wr[1].detailed_df, i,
                                                     wr[1].args.look_ahead))

\* the rows with the given reversal that have their look_ahead rows after them
Scoreable(reversal, look_ahead) ==
    {i \in 1..Len(frame) : frame[i].reversal = reversal /\ i + look_ahead <= Len(frame)}
WinsOn(wins, idx) == Cardinality({i \in idx : wins[i] = 1})

\* C21: the signals on the last look_ahead rows are left out of the summary: each
\* signal count is the number of signals on rows that have their look_ahead rows, and
\* each win rate is the share of winners among those
C21_TrailingBarsExcluded ==
    wr # <<>> =>
        LET S == Scoreable("support reversal", wr[1].args.look_ahead)
            R == Scoreable("resistance reversal", wr[1].args.look_ahead)
        IN /\ wr[1].result.support_signals_count = Cardinality(S)
           /\ wr[1].result.resistance_signals_count = Cardinality(R)
           /\ S # {} => wr[1].result.support_win_rate
                            = Rat(WinsOn(wr[1].detailed_df.support_win, S), Cardinality(S))
           /\ R # {} => wr[1].result.resistance_win_rate
                            = Rat(WinsOn(wr[1].detailed_df.resistance_win, R), Cardinality(R))

(***************************************************************************)
(* Indicator.calculate_score as a function of the summary and the target:  *)
(* the summaries are those calculate_win_rate can return for up to four    *)
(* strong signals a side (a rate is a number of winners over the count, a  *)
(* recall is strong over all), the targets are len(df) * percentage.       *)
(***************************************************************************)
SideSummaries ==
    {x \in [count : {0, 1, 2, 4}, wins : 0..4, all : {0, 1, 2, 4, 8}] :
        /\ x.wins <= x.count
        /\ x.all \in {x.count, 2 * x.count}}
SummaryOfSides(s, r) ==
    [strong_support_win_rate |-> IF s.count = 0 THEN Num(0) ELSE Rat(s.wins, s.count),
     strong_support_signals_count |-> s.count,
     support_signals_count |-> s.all,
     support_recall |-> IF s.all = 0 THEN Num(0) ELSE Rat(s.count, s.all),
     strong_resistance_win_rate |-> IF r.count = 0 THEN Num(0) ELSE Rat(r.wins, r.count),
     strong_resistance_signals_count |-> r.count,
     resistance_signals_count |-> r.all,
     resistance_recall |-> IF r.all = 0 THEN Num(0) ELSE Rat(r.count, r.all)]
SignalCountTargets == {Rat(3, 2), Num(3), Num(9)}

CalculateScore(strategy, s, r, signal_count_target) ==
    /\ wr = <<>> /\ bars = <<>> /\ ta.pc = "idle"
    /\ wr' = <<[fn |-> "calculate_score", strategy |-> strategy,
                result |-> SummaryOfSides(s, r),
                signal_count_target |-> signal_count_target,
                score |-> calculate_score(strategy, SummaryOfSides(s, r),
                                          signal_count_target)]>>
    /\ UNCHANGED <<bars, bars2, cut, frame, frame2, call, ta, regime, batch>>
    /\ UNCHANGED <<storeVars, liveVars>>

NextScore ==
    \E strategy \in Strategies : \E s \in SideSummaries : \E r \in SideSummaries :
        \E signal_count_target \in SignalCountTargets :
            CalculateScore(strategy, s, r, signal_count_target)

SpecScore == InitInd /\ [][NextScore]_vars

\* the score before the penalty: the harmonic mean of the two sides' F1 of strong win
\* rate and recall (KD) or of the two strong win rates (MACD, RSI), 0 unless both are
\* positive
SideF1(win_rate, recall) ==
    IF RAdd(win_rate, recall) = Num(0) THEN Num(0)
    ELSE RDiv(RMul(Num(2), RMul(win_rate, recall)), RAdd(win_rate, recall))
HarmonicMean(a, b) ==
    IF Gt(a, Num(0)) /\ Gt(b, Num(0)) THEN RDiv(RMul(Num(2), RMul(a, b)), RAdd(a, b))
    ELSE Num(0)
BaseScore(strategy, result) ==
    IF strategy = "KD"
    THEN HarmonicMean(SideF1(result.strong_support_win_rate, result.support_recall),
                      SideF1(result.strong_resistance_win_rate, result.resistance_recall))
    ELSE HarmonicMean(result.strong_support_win_rate, result.strong_resistance_win_rate)
\* min(1, strong count / target), the strong count being the smaller side's
Penalty(result, target) ==
    LET count == IF result.strong_support_signals_count
                       <= result.strong_resistance_signals_count
                 THEN result.strong_support_signals_count
                 ELSE result.strong_resistance_signals_count
    IN IF Ge(Num(count), target) THEN Num(1) ELSE RDiv(Num(count), target)

\* C22 as stated: for every strategy the score is the base score times
\* min(1, strong count / density target)
C22_PenaltyByDensityTarget ==
    wr # <<>> /\ wr[1].fn = "calculate_score" =>
        wr[1].score = RMul(BaseScore(wr[1].strategy, wr[1].result),
                           Penalty(wr[1].result, wr[1].signal_count_target))

\* C22: the score is the base score times min(1, strong count / target), the target
\* being the density target for KD and a third of the density target for MACD and RSI
C22_PenaltyByStrategyTarget ==
    wr # <<>> /\ wr[1].fn = "calculate_score" =>
        wr[1].score = RMul(BaseScore(wr[1].strategy, wr[1].result),
                           Penalty(wr[1].result,
                                   IF wr[1].strategy = "KD" THEN wr[1].signal_count_target
                                   ELSE RDiv(wr[1].signal_count_target, Num(3))))

\* a MACD score with both sides winning whose two strong signals a side are fewer
\* than the density target 3 and more than a third of it: the score is not reduced
C22_Witness ==
    /\ wr # <<>> /\ wr[1].fn = "calculate_score"
    /\ wr[1].strategy = "MACD"
    /\ wr[1].signal_count_target = Num(3)
    /\ wr[1].result.strong_support_signals_count = 2
    /\ wr[1].result.strong_resistance_signals_count = 2
    /\ wr[1].result.strong_support_win_rate = Num(1)
    /\ wr[1].result.strong_resistance_win_rate = Rat(1, 2)
    /\ wr[1].score = Rat(2, 3)

(***************************************************************************)
(* The look-ahead and the density target as functions of the current       *)
(* market state: the volatilities and trend lengths are means, so          *)
(* fractions, and NaN when the state has none; the values lie on, next to  *)
(* and between the thresholds.                                             *)
(***************************************************************************)
HistoricalVolatilities ==
    {NaN, Num(0), Rat(5, 1000), Rat(9, 1000), Rat(10, 1000), Rat(11, 1000),
     Rat(19, 1000), Rat(20, 1000), Rat(21, 1000), Rat(29, 1000), Rat(30, 1000),
     Rat(31, 1000), Rat(34, 1000), Rat(35, 1000), Rat(36, 1000), Rat(50, 1000)}
TrendLengths ==
    {NaN, Num(5), Rat(13, 2), Num(7), Rat(15, 2), Num(10), Rat(21, 2), Num(11), Num(30)}

SelectMarketParameters(volatility, trend_length) ==
    /\ regime = <<>> /\ bars = <<>> /\ wr = <<>> /\ ta.pc = "idle"
    /\ regime' = <<[fn |-> "determine_look_ahead",
                    args |-> [volatility |-> volatility, trend_length |-> trend_length],
                    look_ahead |-> determine_look_ahead(volatility, trend_length),
                    signal_target_percentage |->
                        get_signal_target_percentage(volatility)]>>
    /\ UNCHANGED <<bars, bars2, cut, frame, frame2, call, ta, wr, batch>>
    /\ UNCHANGED <<storeVars, liveVars>>

NextLook ==
    \E volatility \in HistoricalVolatilities : \E trend_length \in TrendLengths :
        SelectMarketParameters(volatility, trend_length)

SpecLook == InitInd /\ [][NextLook]_vars

\* x > n/d and x < n/d for a number x (never for NaN)
Above(x, n, d) == x[2] # 0 /\ x[1] * d > n * x[2]
Below(x, n, d) == x[2] # 0 /\ x[1] * d < n * x[2]

\* C23: the look-ahead is 7 exactly when the volatility is above 0.03 and the trend
\* length under 7, 14 exactly when the volatility is under 0.02 and the trend length
\* above 10, and 10 otherwise; the density target is 7% from 0.035 up, 5% from 0.010
\* up to 0.035 and 3% below
C23_LookAheadSelection ==
    regime # <<>> /\ regime[1].fn = "determine_look_ahead" =>
        LET v == regime[1].args.volatility
            t == regime[1].args.trend_length
            l == regime[1].look_ahead
            p == regime[1].signal_target_percentage
        IN /\ l \in {7, 10, 14}
           /\ l = 7 <=> (Above(v, 3, 100) /\ Below(t, 7, 1))
           /\ l = 14 <=> (Below(v, 2, 100) /\ Above(t, 10, 1))
           /\ p \in {Rat(3, 100), Rat(5, 100), Rat(7, 100)}
           /\ p = Rat(7, 100) <=> (v[2] # 0 /\ ~Below(v, 35, 1000))
           /\ p = Rat(3, 100) <=> (v[2] = 0 \/ Below(v, 10, 1000))

\* the volatility exactly 0.03 with a short trend: not high, so the look-ahead is 10
C23_Witness ==
    /\ regime # <<>> /\ regime[1].fn = "determine_look_ahead"
    /\ regime[1].args.volatility = Rat(3, 100)
    /\ regime[1].args.trend_length = Num(5)
    /\ regime[1].look_ahead = 10
    /\ regime[1].signal_target_percentage = Rat(5, 100)

(***************************************************************************)
(* analyze_market_states on two series of one length that agree up to row  *)
(* cut: the second is the first with every later bar changed.              *)
(***************************************************************************)
\* a series at one price for its first s bars that rises and falls afterwards
Late(n, k, s) ==
    [i \in 1..n |-> IF i <= s THEN Bar(10, 10, 10, 10) ELSE Zig(n, k)[i - s]]
HistFrames ==
    {Zig(100, 10), Zig(100, 12), Zig(100, 15), Late(100, 10, 50), Late(100, 12, 50)}
\* the changes of a later bar: to one price, moved up, its high raised, multiplied
Mutations ==
    ({"flat"} \X {10, 15, 20}) \cup ({"shift"} \X {1, 2, 3, 5})
        \cup ({"widen"} \X {1, 3, 5}) \cup ({"scale"} \X {2, 3})
MutatedBar(b, m) ==
    CASE m[1] = "flat" -> Bar(m[2], m[2], m[2], m[2])
      [] m[1] = "shift" -> Bar(b.open + m[2], b.high + m[2], b.low + m[2], b.close + m[2])
      [] m[1] = "widen" -> Bar(b.open, b.high + m[2], b.low, b.close)
      [] m[1] = "scale" -> Bar(m[2] * b.open, m[2] * b.high, m[2] * b.low, m[2] * b.close)
LaterBarsMutated(df, c, m) ==
    [i \in 1..Len(df) |-> IF i <= c THEN df[i] ELSE MutatedBar(df[i], m)]
\* the last row of the first of the two groups of a series
FirstGroupEnd(df) == GroupEnd(Len(df), 2, 1)

InitHist ==
    /\ InitStore /\ observed = {}
    /\ conn = [w \in Writers |-> [backend |-> "sqlite", inst |-> "main"]]
    /\ bars \in HistFrames
    /\ bars2 = bars /\ cut = 0 /\ frame = <<>> /\ frame2 = <<>> /\ call = <<>>
    /\ ta = NoTa /\ wr = <<>> /\ regime = <<>> /\ batch = <<>>

\* the second series: the bars after the first group changed
MutateLaterBars(m) ==
    /\ regime = <<>> /\ cut = 0
    /\ bars2' = LaterBarsMutated(bars, FirstGroupEnd(bars), m)
    /\ cut' = FirstGroupEnd(bars)
    /\ UNCHANGED <<bars, frame, frame2, call, ta, wr, regime, batch>>
    /\ UNCHANGED <<storeVars, liveVars>>

\* analyze_market_states(df, period) on each of the two series
AnalyzeBoth(period) ==
    /\ regime = <<>> /\ cut > 0
    /\ regime' = <<[fn |-> "analyze_market_states", args |-> <<period>>, df |-> bars,
                    result |-> analyze_market_states(bars, period)],
                   [fn |-> "analyze_market_states", args |-> <<period>>, df |-> bars2,
                    result |-> analyze_market_states(bars2, period)]>>
    /\ UNCHANGED <<bars, bars2, cut, frame, frame2, call, ta, wr, batch>>
    /\ UNCHANGED <<storeVars, liveVars>>

NextHist ==
    \/ \E m \in Mutations : MutateLaterBars(m)
    \/ \E period \in Periods : AnalyzeBoth(period)

SpecHist == InitHist /\ [][NextHist]_vars

\* the groups of a call that lie wholly within the first cut rows
GroupsBefore(period) ==
    {g \in 1..group_count(Len(bars), period) :
        GroupEnd(Len(bars), group_count(Len(bars), period), g) <= cut}
RunningMean(rows, g) == Mean([j \in 1..g |-> rows[j].Volatility])

\* C24: every group g of analyze_market_states has Historical_Volatility[g] equal to the
\* mean of Volatility[0..g], and the call on a series whose bars after group g were
\* changed (the length kept) gives the same Historical_Volatility[g]
C24_HistoricalVolatilityNoLookahead ==
    Len(regime) = 2 =>
        \A c \in 1..2 :
            regime[c].result.raised = "none" =>
                /\ \A g \in 1..Len(regime[c].result.rows) :
                      regime[c].result.rows[g].Historical_Volatility
                          = RunningMean(regime[c].result.rows, g)
                /\ \A g \in GroupsBefore(regime[c].args[1]) :
                      /\ regime[3 - c].result.raised = "none"
                      /\ regime[3 - c].result.rows[g].Historical_Volatility
                            = regime[c].result.rows[g].Historical_Volatility

\* the part that holds: when both calls return, the groups before the cut have the same
\* Historical_Volatility, the running mean of the volatilities
HistoricalVolatilityWhereReturned ==
    (Len(regime) = 2 /\ regime[1].result.raised = "none"
        /\ regime[2].result.raised = "none") =>
        /\ \A c \in 1..2 : \A g \in 1..Len(regime[c].result.rows) :
              regime[c].result.rows[g].Historical_Volatility
                  = RunningMean(regime[c].result.rows, g)
        /\ \A g \in GroupsBefore(regime[1].args[1]) :
              regime[1].result.rows[g].Historical_Volatility
                  = regime[2].result.rows[g].Historical_Volatility

(***************************************************************************)
(* calculate_trend_duration on series that rise and fall with a turn every *)
(* k bars, of several lengths: they hold from no run to seven runs.        *)
(***************************************************************************)
TrendFrames ==
    {Zig(n, k) : n \in {30, 40, 50, 60, 80, 100}, k \in {6, 8, 10, 12, 15, 20, 25, 30, 40}}
        \cup {Flat(30)}

CalculateTrendDuration ==
    /\ regime = <<>>
    /\ regime' = <<[fn |-> "calculate_trend_duration", args |-> <<5>>, df |-> bars,
                    trends_data |-> TrendsOf(Column(bars, "close")),
                    result |-> calculate_trend_duration(bars)]>>
    /\ UNCHANGED <<bars, bars2, cut, frame, frame2, call, ta, wr, batch>>
    /\ UNCHANGED <<storeVars, liveVars>>

InitTrend ==
    /\ InitStore /\ observed = {}
    /\ conn = [w \in Writers |-> [backend |-> "sqlite", inst |-> "main"]]
    /\ bars \in TrendFrames
    /\ bars2 = <<>> /\ cut = 0 /\ frame = <<>> /\ frame2 = <<>> /\ call = <<>>
    /\ ta = NoTa /\ wr = <<>> /\ regime = <<>> /\ batch = <<>>

NextTrend == CalculateTrendDuration

SpecTrend == InitTrend /\ [][NextTrend]_vars

\* the three moving averages are aligned in a direction at row i and the short one
\* moves that way
Aligned(close, direction, i) ==
    LET ma_short == rolling_mean(close, 5)
        ma_middle == rolling_mean(close, 10)
        ma_long == rolling_mean(close, 15)
    IN IF direction = 1
       THEN /\ Gt(ma_short[i], ma_middle[i]) /\ Gt(ma_middle[i], ma_long[i])
            /\ Gt(ma_short[i], ma_short[i - 1])
       ELSE /\ Lt(ma_short[i], ma_middle[i]) /\ Lt(ma_middle[i], ma_long[i])
            /\ Lt(ma_short[i], ma_short[i - 1])
\* a returned row is a run of at least 5 aligned bars that ended, at end_date, on a bar
\* that is not aligned
EndedRun(close, r) ==
    /\ r.trend_length >= 5
    /\ r.direction \in {1, -1}
    /\ r.end_date - r.trend_length >= 16
    /\ \A j \in (r.end_date - r.trend_length)..(r.end_date - 1) :
          Aligned(close, r.direction, j)
    /\ ~Aligned(close, r.direction, r.end_date)
OnlyEndedRuns ==
    regime # <<>> /\ regime[1].fn = "calculate_trend_duration" =>
        \A j \in 1..Len(regime[1].result.trends_df) :
            EndedRun(Column(regime[1].df, "close"), regime[1].result.trends_df[j])

\* C25 as stated: only ended runs of at least 5 bars are returned, and the first and
\* the last run found are dropped whatever the number of runs found
C25_FirstAndLastAlwaysDropped ==
    /\ OnlyEndedRuns
    /\ regime # <<>> /\ regime[1].fn = "calculate_trend_duration" =>
          \A j \in 1..Len(regime[1].trends_data) :
              (j = 1 \/ j = Len(regime[1].trends_data)) =>
                  \A h \in 1..Len(regime[1].result.trends_df) :
                      regime[1].result.trends_df[h] # regime[1].trends_data[j]

\* C25: only ended runs of at least 5 bars are returned; when more than two runs were
\* found the first and the last are dropped, when one or two were found all are returned
C25_FirstAndLastDroppedOfThree ==
    /\ OnlyEndedRuns
    /\ regime # <<>> /\ regime[1].fn = "calculate_trend_duration" =>
          regime[1].result.trends_df
              = IF Len(regime[1].trends_data) > 2
                THEN SubSeq(regime[1].trends_data, 2, Len(regime[1].trends_data) - 1)
                ELSE regime[1].trends_data

\* seven runs found on the series of 100 bars turning every 12 bars, five returned
C25_Witness ==
    /\ regime # <<>> /\ regime[1].fn = "calculate_trend_duration"
    /\ regime[1].df = Zig(100, 12)
    /\ Len(regime[1].trends_data) = 7
    /\ Len(regime[1].result.trends_df) = 5
    /\ regime[1].result.trends_df[1] = regime[1].trends_data[2]

(***************************************************************************)
(* MACD.calculate in train mode on histories priced in the thousands,      *)
(* where the MACD value of a bar passes 150.                               *)
(***************************************************************************)
PricedCandles == {Bar(c, c, c, c) : c \in {1000, 2900, 3000}}

NextMacd ==
    \/ \E b \in PricedCandles : AppendBar(b)
    \/ \E raw \in ParamSpace("MACD") : Calculate("MACD", raw, "train")

SpecMacd == InitInd /\ [][NextMacd]_vars

\* macd and signal of the history of the last calculate
MacdOfCall ==
    MACD_macd(Column(bars, "close"), int(call[1].params.fast_period),
              int(call[1].params.slow_period), int(call[1].params.signal_period))
CrossesAbove(ms, i) ==
    i >= 2 /\ Gt(ms[1][i], ms[2][i]) /\ Le(ms[1][i - 1], ms[2][i - 1])
CrossesBelow(ms, i) ==
    i >= 2 /\ Lt(ms[1][i], ms[2][i]) /\ Ge(ms[1][i - 1], ms[2][i - 1])
\* the periods pass the guard of calculate (fast_period * 1.5 <= slow_period)
PeriodsApart ==
    Le(RMul(Num(int(call[1].params.fast_period)), Rat(3, 2)),
       Num(int(call[1].params.slow_period)))

\* C26: in train mode a bar is a support reversal iff MACD crosses above its signal line
\* there with 0 < MACD < 150, a resistance reversal iff it crosses below with
\* -150 < MACD < 0, and no bar with |MACD| >= 150 carries a signal
C26_MacdSignalRule ==
    (call # <<>> /\ call[1].strategy = "MACD" /\ call[1].mode = "train" /\ PeriodsApart) =>
        \A i \in 1..Len(frame) :
            /\ frame[i].reversal = "support reversal" <=>
                  (/\ CrossesAbove(MacdOfCall, i)
                   /\ Gt(MacdOfCall[1][i], Num(0)) /\ Lt(MacdOfCall[1][i], Num(150)))
            /\ frame[i].reversal = "resistance reversal" <=>
                  (/\ CrossesBelow(MacdOfCall, i)
                   /\ Lt(MacdOfCall[1][i], Num(0)) /\ Gt(MacdOfCall[1][i], Num(-150)))
            /\ Ge(RAbs(MacdOfCall[1][i]), Num(150)) => frame[i].reversal = "none"

\* the rule without the cap, which the calls follow
MacdSignalRuleUncapped ==
    (call # <<>> /\ call[1].strategy = "MACD" /\ call[1].mode = "train" /\ PeriodsApart) =>
        \A i \in 1..Len(frame) :
            /\ frame[i].reversal = "support reversal" <=>
                  (CrossesAbove(MacdOfCall, i) /\ Gt(MacdOfCall[1][i], Num(0)))
            /\ frame[i].reversal = "resistance reversal" <=>
                  (CrossesBelow(MacdOfCall, i) /\ Lt(MacdOfCall[1][i], Num(0)))

(***************************************************************************)
(* SchedulerManager (src/scheduler.py).  A task is named by the file of    *)
(* its configuration; its jobs in the APScheduler job store are the job    *)
(* with the task's id (a cron or an interval job running the task          *)
(* function) and, for a minute-kline task, the date job <task_id>_end that *)
(* runs end_task at the close.  The store holds one job per id.            *)
(***************************************************************************)
TaskIds == {"a.ini", "b.ini"}
KlineTypes == {"K_DAY", "K_5M", "K_TICK"}
JobId(task_id) == <<task_id, "">>
EndJobId(task_id) == <<task_id, "_end">>
HasJob(jobs, id) == \E j \in jobs : j.id = id
\* scheduler.add_job(..., id=id, replace_existing=True)
ReplaceJob(jobs, id, trigger, func) ==
    {j \in jobs : j.id # id} \cup {[id |-> id, trigger |-> trigger, func |-> func]}
\* scheduler.remove_job(id), for a job that is there
WithoutJob(jobs, id) == {j \in jobs : j.id # id}

\* remove_task: True and the job and the task's entries gone, or False when
\* scheduler.remove_job raises JobLookupError
remove_task(sm, task_id) ==
    IF HasJob(sm.jobs, JobId(task_id))
    THEN [sm EXCEPT !.jobs = WithoutJob(@, JobId(task_id)),
                    !.tasks = @ \ {task_id},
                    !.removed = @ \cup {task_id},
                    !.ran = @ \ {task_id},
                    !.ret = "True"]
    ELSE [sm EXCEPT !.ret = "False"]

\* add_task after the task was registered: the jobs by kline type; trading_time is
\* whether get_market_trading_time returned the times of the day
add_jobs(sm, task_id, kline_type, trading_time) ==
    IF ~trading_time THEN [sm EXCEPT !.ret = task_id]
    ELSE IF kline_type = "K_DAY"
    THEN [sm EXCEPT !.jobs = ReplaceJob(@, JobId(task_id), "cron", "task_func"),
                    !.ret = task_id]
    ELSE IF kline_type = "K_5M"
    THEN IF HasJob(sm.jobs, EndJobId(task_id))
         THEN [sm EXCEPT !.jobs = ReplaceJob(@, JobId(task_id), "interval", "task_func"),
                         !.ret = "ConflictingIdError"]
         ELSE [sm EXCEPT !.jobs = ReplaceJob(ReplaceJob(@, JobId(task_id), "interval",
                                                        "task_func"),
                                             EndJobId(task_id), "date", "end_task"),
                         !.ret = task_id]
    ELSE [sm EXCEPT !.ret = task_id]

Registered(sm, task_id) ==
    [sm EXCEPT !.tasks = @ \cup {task_id}, !.removed = @ \ {task_id}, !.ran = @ \ {task_id}]

AddTask(task_id, kline_type, trading_time) ==
    /\ scheduler' = add_jobs(Registered(IF task_id \in scheduler.tasks
                                        THEN remove_task(scheduler, task_id)
                                        ELSE scheduler, task_id),
                             task_id, kline_type, trading_time)
    /\ UNCHANGED <<storeVars, indVars, engine>>

RemoveTask(task_id) ==
    /\ scheduler' = remove_task(scheduler, task_id)
    /\ UNCHANGED <<storeVars, indVars, engine>>

\* a cron or interval job comes due: the task function runs
RunTaskJob(task_id) ==
    /\ HasJob(scheduler.jobs, JobId(task_id))
    /\ scheduler' = [scheduler EXCEPT !.ran = IF task_id \in scheduler.removed
                                              THEN @ \cup {task_id} ELSE @,
                                      !.ret = "none"]
    /\ UNCHANGED <<storeVars, indVars, engine>>

\* the date job <task_id>_end comes due and leaves the store; end_task runs:
\* `task_id in self.scheduler.get_jobs()' compares a string with Job objects and is
\* False, so no job is removed; with a next trading day the interval job and the next
\* day's end job are added, replacing what has the same id
RunEndJob(task_id, next_trading_time) ==
    /\ HasJob(scheduler.jobs, EndJobId(task_id))
    /\ scheduler' =
          [scheduler EXCEPT
              !.jobs = IF next_trading_time
                       THEN ReplaceJob(ReplaceJob(WithoutJob(@, EndJobId(task_id)),
                                                  JobId(task_id), "interval", "task_func"),
                                       EndJobId(task_id), "date", "end_task")
                       ELSE WithoutJob(@, EndJobId(task_id)),
              !.ret = "none"]
    /\ UNCHANGED <<storeVars, indVars, engine>>

NextSched ==
    \/ \E task_id \in TaskIds : \E kline_type \in KlineTypes : \E trading_time \in BOOLEAN :
         AddTask(task_id, kline_type, trading_time)
    \/ \E task_id \in TaskIds : RemoveTask(task_id)
    \/ \E task_id \in TaskIds : RunTaskJob(task_id)
    \/ \E task_id \in TaskIds : \E next_trading_time \in BOOLEAN :
         RunEndJob(task_id, next_trading_time)

SpecSched == InitInd /\ [][NextSched]_vars

\* C27: a task whose remove_task returned True, and for which add_task was not called
\* since, has no job in the scheduler, the job <task_id>_end included, and its task
\* function has not run since
C27_RemovalIsFinal ==
    \A task_id \in scheduler.removed :
        /\ ~HasJob(scheduler.jobs, JobId(task_id))
        /\ ~HasJob(scheduler.jobs, EndJobId(task_id))
        /\ task_id \notin scheduler.ran

\* the last part alone: the task function of a removed task does not run
RemovedTaskNeverRuns == \A task_id \in scheduler.removed : task_id \notin scheduler.ran

(***************************************************************************)
(* ConditionOrderEngine (src/order_engine.py): the orders of the YAML file *)
(* and the ticks of the event engine.                                      *)
(***************************************************************************)
EXCHANGE_MAP(exchange) ==
    CASE exchange = "SH" -> "SSE" [] exchange = "SZ" -> "SZSE"
      [] exchange = "HK" -> "SEHK" [] exchange = "US" -> "SMART"

Cond(variable, operator, value) ==
    [variable |-> variable, operator |-> operator, value |-> value]
\* the orders of the configuration file; trigger_once is a key that may be absent
OrderConfigs ==
    {[id |-> "o1", symbol |-> "600519", exchange |-> "SH", trigger_once |-> "absent",
      conditions |-> [items |-> <<Cond("last_price", ">", 10)>>, logical_operator |-> "AND"],
      actions |-> <<"notify">>],
     [id |-> "o2", symbol |-> "600519", exchange |-> "SH", trigger_once |-> "False",
      conditions |-> [items |-> <<Cond("last_price", ">=", 10)>>, logical_operator |-> "OR"],
      actions |-> <<"limit">>],
     [id |-> "o3", symbol |-> "00700", exchange |-> "HK", trigger_once |-> "True",
      conditions |-> [items |-> <<Cond("last_price", "<=", 10), Cond("turnover_rate", "==", 1)>>,
                      logical_operator |-> "OR"],
      actions |-> <<"notify", "market">>],
     [id |-> "o4", symbol |-> "600519", exchange |-> "HK", trigger_once |-> "True",
      conditions |-> [items |-> <<Cond("last_price", ">=", 9), Cond("last_price", "<", 11)>>,
                      logical_operator |-> "AND"],
      actions |-> <<"limit">>]}
Ticks ==
    [symbol : {"600519", "00700"}, exchange : {"SSE", "SEHK"}, last_price : {9, 10, 11}]

\* order.get('trigger_once', True) -- mutant: the default is False
trigger_once_DefaultFalse(order) == order.trigger_once = "True"
trigger_once(order) == order.trigger_once # "False"

\* getattr(tick, variable, None): <<value>>, or <<>> for None
getattr(tick, variable) == IF variable \in DOMAIN tick THEN <<tick[variable]>> ELSE <<>>
ConditionResult(cond, tick) ==
    LET var_value == getattr(tick, cond.variable)
    IN IF var_value = <<>> THEN FALSE
       ELSE CASE cond.operator = ">" -> var_value[1] > cond.value
              [] cond.operator = "<" -> var_value[1] < cond.value
              [] cond.operator = ">=" -> var_value[1] >= cond.value
              [] cond.operator = "<=" -> var_value[1] <= cond.value
              [] cond.operator = "==" -> var_value[1] = cond.value
              [] OTHER -> FALSE
check_condition(order, tick) ==
    LET items == order.conditions.items
        results == [j \in 1..Len(items) |-> ConditionResult(items[j], tick)]
    IN IF Len(items) = 0 THEN FALSE
       ELSE IF order.conditions.logical_operator = "AND"
       THEN \A j \in 1..Len(items) : results[j]
       ELSE \E j \in 1..Len(items) : results[j]

\* the orders process_tick triggers on a tick
Triggered(active_orders, tick) ==
    {order \in active_orders :
        /\ tick.symbol = order.symbol /\ tick.exchange = EXCHANGE_MAP(order.exchange)
        /\ check_condition(order, tick)}

\* load: the enabled orders become active
Load(enabled) ==
    /\ ~engine.loaded
    /\ engine' = [engine EXCEPT !.loaded = TRUE,
                                !.active_orders = {o \in OrderConfigs : o.id \in enabled}]
    /\ UNCHANGED <<storeVars, indVars, scheduler>>

ProcessTick(tick) ==
    /\ engine.loaded
    /\ Len(engine.seen) < MaxTicks
    /\ engine' =
          [engine EXCEPT
              !.active_orders = @ \ {o \in Triggered(engine.active_orders, tick) :
                                        trigger_once(o)},
              !.executions = [id \in OrderIds |->
                                 IF \E o \in Triggered(engine.active_orders, tick) : o.id = id
                                 THEN @[id] + 1 ELSE @[id]],
              !.seen = Append(@, tick)]
    /\ UNCHANGED <<storeVars, indVars, scheduler>>

NextEngine ==
    \/ \E enabled \in SUBSET OrderIds : Load(enabled)
    \/ \E tick \in Ticks : ProcessTick(tick)

SpecEngine == InitInd /\ [][NextEngine]_vars

OnceOrders == {o \in OrderConfigs : o.trigger_once # "False"}
\* a tick is for the order's symbol and exchange and the order's condition holds on it
Hits(order, tick) ==
    /\ tick.symbol = order.symbol /\ tick.exchange = EXCHANGE_MAP(order.exchange)
    /\ check_condition(order, tick)
FiresAtMostOnce ==
    \A o \in OnceOrders :
        /\ engine.executions[o.id] <= 1
        /\ engine.executions[o.id] = 1 => o \notin engine.active_orders
TickRule ==
    Len(engine'.seen) = Len(engine.seen) + 1 =>
        LET tick == engine'.seen[Len(engine'.seen)]
        IN \A o \in OrderConfigs :
              IF o \in engine.active_orders /\ Hits(o, tick)
              THEN /\ engine'.executions[o.id] = engine.executions[o.id] + 1
                   /\ o \in engine'.active_orders <=> o.trigger_once = "False"
              ELSE /\ engine'.executions[o.id] = engine.executions[o.id]
                   /\ o \in engine'.active_orders <=> o \in engine.active_orders

\* C28: an active trigger-once order (trigger_once true or absent) executes its actions
\* on a tick of its symbol and exchange on which its condition holds and is removed in
\* that step, so it executes at most once; an order with trigger_once false executes
\* and stays; a tick that is for another symbol or exchange, or on which the condition
\* does not hold, executes and removes nothing
C28_TriggerOnceFiresOnce == [](FiresAtMostOnce) /\ [][TickRule]_vars

\* two ticks in a row on which the condition of the trigger-once order o1 holds: it
\* executed once and is gone, the order o2 with trigger_once false executed twice
C28_Witness ==
    /\ Len(engine.seen) = 2
    /\ engine.seen[1] = [symbol |-> "600519", exchange |-> "SSE", last_price |-> 11]
    /\ engine.seen[2] = engine.seen[1]
    /\ engine.executions["o1"] = 1
    /\ engine.executions["o2"] = 2
    /\ \A o \in engine.active_orders : o.id # "o1"
    /\ \E o \in engine.active_orders : o.id = "o2"

\* C29: run_analysis returns a pair (results, summary_file) for every code list, the
\* empty one included, and the unpacking in __main__ goes through
C29_ReturnsUnpackablePair ==
    (batch # <<>> /\ batch[1].pc = "returned") =>
        /\ batch[1].value = "(results, summary_file)"
        /\ batch[1].main \in {"calling", "continues"}

\* the same for the code lists that are not empty
NonEmptyReturnsPair ==
    (batch # <<>> /\ batch[1].pc = "returned" /\ batch[1].code_list # <<>>) =>
        /\ batch[1].value = "(results, summary_file)"
        /\ batch[1].main \in {"calling", "continues"}

\* C30: in check mode no strategy signals on the final bar: a bar that carries a
\* reversal in check mode has a bar after it
C30_CheckNeverSignalsOnLastBar ==
    (call # <<>> /\ call[1].mode = "check") =>
        \A i \in 1..Len(frame) : frame[i].reversal # "none" => i + 1 <= Len(bars)

\* a check-mode frame without a signal on the final bar, where the train-mode frame of
\* the same history and parameters has one
C30_Witness ==
    /\ call # <<>> /\ call[1].mode = "check"
    /\ Len(bars) >= 2
    /\ TrainFrame[Len(bars)].reversal # "none"
    /\ frame[Len(bars)].reversal = "none"

====
